---------------------------- MODULE Spec2Model ----------------------------
(***************************************************************************)
(* AIskNet: the embedding cache and its eviction (store.ts validateCache), *)
(* the cross-context synchronized store (store.ts createStore), the        *)
(* streaming answer handler (background/ports/answer.ts), the heartbeat    *)
(* monitor (background/index.ts, popup/index.svelte) and the popup's       *)
(* request guards (popup/index.svelte).                                    *)
(*                                                                         *)
(* Each part of the program has its own specification over the shared      *)
(* variables; a specification leaves the variables it does not use at      *)
(* their initial values.                                                   *)
(***************************************************************************)
EXTENDS Integers, Sequences, FiniteSets, TLC

VARIABLES
    embeddingIndexDB,   \* the localForage cache: site key -> CacheItem or NoItem
    now,                \* Date.now(), in milliseconds
    ticks,              \* how many times the clock has advanced
    lastOp,             \* the last cache operation and what it did
    cell,               \* one createStore cell: persisted value, per-context state
    storeGhost,         \* history of the cell's writes
    heartbeat,          \* the heartbeat cell
    status,             \* the status cell
    bg,                 \* the background service worker: alive, next setHeartbeat
    popup,              \* the popup: open, mounted, next checkHeartbeat
    lag,                \* ticks a heartbeat write or notification has been in flight
    lastCheck,          \* the last checkHeartbeat call and what it did
    stop,               \* the stop cell
    output,             \* the output cell
    ports,              \* requests posted on the answer and embedding ports
    runs,               \* the handler invocations of the background
    error,              \* the error cell
    prompt,             \* the prompt cell
    progress,           \* the progress cell
    timers,             \* the timers that are pending
    search,             \* one call of similaritySearch: arguments and result
    stream,             \* the pieces the generation stream yields, in order
    inflight            \* the embedding handlers between validateCache and setItem, by site

clockVars == <<now, ticks>>

cacheVars == <<embeddingIndexDB, lastOp>>

storeVars == <<cell, storeGhost>>

hbVars == <<heartbeat, status, bg, popup, lag, lastCheck>>

runVars == <<stop, output, ports, runs, error, prompt, progress, timers>>

vars == <<embeddingIndexDB, now, ticks, lastOp, cell, storeGhost,
          heartbeat, status, bg, popup, lag, lastCheck,
          stop, output, ports, runs, error, prompt, progress, timers, search, stream, inflight>>

\* What the operations of one part of the program leave alone.
notCache == <<storeVars, hbVars, runVars, search, stream, inflight>>

notStore == <<clockVars, cacheVars, hbVars, runVars, search, stream, inflight>>

notHeartbeat == <<cacheVars, storeVars, runVars, search, stream, inflight>>

notRuns == <<clockVars, lastOp, storeVars, bg, lag, lastCheck, search, stream, inflight>>

notSearch == <<clockVars, cacheVars, storeVars, hbVars, runVars, stream, inflight>>

\* The cells that only the handlers' prompt and error steps write.
textVars == <<error, prompt, progress, timers>>

(***************************************************************************)
(* Bounds of the model.                                                    *)
(***************************************************************************)
NumSites == 3
MaxTicks == 2
MaxOps == 2
MaxInits == 1
MaxHbTicks == 6
MaxDelayTicks == 1
MaxRuns == 1
MaxOpens == 1
MaxRequests == 3
MaxStops == 1
MaxPieces == 2
MaxIndex == 3
MaxChunks == 2
MaxK == 3

(***************************************************************************)
(* The cache (store.ts).                                                   *)
(***************************************************************************)
MB == 1024 * 1024

maxCacheSize == 200 * 1024 * 1024

maxCacheAge == 1000 * 60 * 10

\* Site keys. localForage's IndexedDB driver iterates an object store with a
\* cursor, in ascending key order: the order of the site keys is <.
Sites == 1..NumSites

NoItem == [size |-> -1, timestamp |-> -1]

NoCandidate == -1

\* The byte lengths new TextEncoder().encode(JSON.stringify(data)).byteLength
\* takes in the model: an Embedding[] is modelled by its serialized length.
DataSizes == {100 * MB, 150 * MB, 250 * MB}

ClockSteps == {1, maxCacheAge}

\* A handler of handlerEmbeddings that has not built its item.
NoInsert == [pc |-> "idle", size |-> -1, timestamp |-> -1]

CacheItem(size, timestamp) == [size |-> size, timestamp |-> timestamp]

Keys(db) == {k \in Sites : db[k] # NoItem}

\* The keys of db as the cursor yields them.
RECURSIVE KeysFrom(_, _)
KeysFrom(db, k) ==
    IF k > NumSites THEN <<>>
    ELSE IF db[k] # NoItem THEN <<k>> \o KeysFrom(db, k + 1)
    ELSE KeysFrom(db, k + 1)

IterationOrder(db) == KeysFrom(db, 1)

\* embeddingIndexDB.iterate(async (item, key) => ...): localForage calls the
\* callback on the first pair and stops as soon as the callback returns a
\* value other than undefined, resolving with that value.  An async callback
\* returns a promise, so the iteration ends after the first pair and
\* iterate() resolves when that one callback has finished.
IterateVisited(order) ==
    IF order = <<>> THEN <<>> ELSE <<Head(order)>>

\* An age test that counts an age of exactly maxCacheAge as expired.
IsExpired_AtAge(item, currentTime) == currentTime - item.timestamp >= maxCacheAge

IsExpired(item, currentTime) == currentTime - item.timestamp > maxCacheAge

\* A removal that empties the entry and leaves its key.
RemoveItem_Truncating(db, k) == [db EXCEPT ![k].size = 0]

RemoveItem(db, k) == [db EXCEPT ![k] = NoItem]

\* The body of the iterate callback, over the pairs the iteration visits.
\* st = [db, cacheSize, cacheItemSizes]; cacheItemSizes is the Map, as the
\* sequence of its keys in insertion order.
RECURSIVE IterateCallback(_, _, _, _)
IterateCallback(st, visited, currentTime, embedIndex) ==
    IF visited = <<>> THEN st
    ELSE LET key == Head(visited)
             item == st.db[key]
             nxt == IF IsExpired(item, currentTime)
                      THEN [st EXCEPT !.db = RemoveItem(st.db, key)]
                    ELSE IF embedIndex # NoCandidate
                      THEN [st EXCEPT !.cacheSize = @ + item.size,
                                      !.cacheItemSizes = Append(@, key)]
                    ELSE st
         IN IterateCallback(nxt, Tail(visited), currentTime, embedIndex)

\* while (newCacheSize > maxCacheSize) { const [key, size] =
\* cacheItemSizes.entries().next().value; ... }: with the Map empty the
\* destructuring of undefined throws a TypeError.
RECURSIVE SizeLoop(_, _, _)
SizeLoop(db, cacheItemSizes, newCacheSize) ==
    IF ~(newCacheSize > maxCacheSize)
      THEN [db |-> db, outcome |-> "returned"]
    ELSE IF cacheItemSizes = <<>>
      THEN [db |-> db, outcome |-> "threw"]
    ELSE LET key == Head(cacheItemSizes)
         IN SizeLoop(RemoveItem(db, key), Tail(cacheItemSizes),
                     newCacheSize - db[key].size)

\* validateCache(embedIndex?) at time currentTime: the cache it leaves and
\* whether it returned or threw.  embedIndex is the candidate's serialized
\* byte length, or NoCandidate.
validateCache(db, currentTime, embedIndex) ==
    LET st == IterateCallback(
                  [db |-> db, cacheSize |-> 0, cacheItemSizes |-> <<>>],
                  IterateVisited(IterationOrder(db)), currentTime, embedIndex)
    IN IF embedIndex = NoCandidate
         THEN [db |-> st.db, outcome |-> "returned"]
         ELSE SizeLoop(st.db, st.cacheItemSizes, st.cacheSize + embedIndex)

RECURSIVE SumSizes(_, _)
SumSizes(db, keys) ==
    IF keys = {} THEN 0
    ELSE LET k == CHOOSE x \in keys : TRUE
         IN db[k].size + SumSizes(db, keys \ {k})

TotalSize(db) == SumSizes(db, Keys(db))

(***************************************************************************)
(* The synchronized store (store.ts createStore) over the persistence      *)
(* layer (@plasmohq/storage on chrome.storage).                            *)
(***************************************************************************)
Contexts == {"bg", "popup"}

\* storage.get(name) of a key that is not stored.
Absent == "undefined"

Undefined == "<undefined>"

\* The values the contexts pass to set, and the cell's default (the string
\* cells question, prompt, output and error have the default "").
CellValues == {"", "a", "b"}

CellDef == ""

\* Storage.set stores JSON.stringify(value); Storage.get returns
\* JSON.parse(raw), or undefined for a key that is not stored.
Stringify(v) == "\"" \o v \o "\""

Parse(raw) == IF raw = Absent THEN Undefined ELSE SubSeq(raw, 2, Len(raw) - 1)

\* const { subscribe, set } = writable(def): every context starts with the
\* default in memory, no listener, and nothing in flight.
createStore(def) ==
    [stored |-> Absent,
     mem |-> [c \in Contexts |-> def],
     watchers |-> [c \in Contexts |-> 0],
     events |-> [c \in Contexts |-> <<>>],
     writes |-> [c \in Contexts |-> <<>>]]

\* A getStorage that passes on what storage.get resolved with.
getStorage_NoDefault(cl, def) == Parse(cl.stored)

\* getStorage: (await storage.get(name)) ?? def.
getStorage(cl, def) ==
    LET v == Parse(cl.stored) IN IF v = Undefined THEN def ELSE v

\* set(value); await storage.set(name, value): the local publication is
\* synchronous, the write is in flight until the persistence layer settles
\* it.  The writes of one context are served in the order it issued them.
StoreSet(cl, c, w) ==
    [cl EXCEPT !.mem[c] = w.value, !.writes[c] = Append(@, w)]

\* The persistence layer commits the oldest write of context c.
\* chrome.storage fires onChanged only for a key whose value changed, in
\* every context that has a listener, the writer included; each context
\* receives its notifications in commit order.
StorageCommit(cl, c) ==
    LET raw == Head(cl.writes[c]).raw
    IN [cl EXCEPT !.stored = raw,
                  !.writes[c] = Tail(@),
                  !.events = [k \in Contexts |->
                                 IF raw # cl.stored /\ cl.watchers[k] > 0
                                   THEN Append(cl.events[k], raw)
                                   ELSE cl.events[k]]]

\* The oldest write of context c is rejected and the context falls back to
\* the persisted value.
StorageReject_RollingBack(cl, c) ==
    [cl EXCEPT !.writes[c] = Tail(@),
               !.mem[c] = IF Parse(cl.stored) = Undefined
                            THEN CellDef ELSE Parse(cl.stored)]

\* The oldest write of context c is rejected: nothing is persisted and the
\* value already published in c stays.
StorageReject(cl, c) == [cl EXCEPT !.writes[c] = Tail(@)]

\* A listener that drops the notification instead of publishing it.
WatchCallback_Ignored(cl, c) == [cl EXCEPT !.events[c] = Tail(@)]

\* The listener of init: (c) => set(c.newValue).
WatchCallback(cl, c) ==
    [cl EXCEPT !.mem[c] = Parse(Head(cl.events[c])), !.events[c] = Tail(@)]

\* init: storedValue = (await storage.get(name)) ?? def; storage.watch(...);
\* set(storedValue).  The continuation after the read runs before any later
\* notification is dispatched, so the listener is in place for every change
\* committed after the read.
StoreInitCell(cl, c, def) ==
    [cl EXCEPT !.mem[c] = getStorage(cl, def), !.watchers[c] = @ + 1]

\* No getStorage call has returned yet.
NoGet == [value |-> "<none>"]

\* The closures passed to storage.watch and storage.unwatch, named by the
\* place that creates them: each evaluation of an arrow function is a new
\* function object.
InitListener == "init"

DestroyListener == "destroy"

\* storage.unwatch({[name]: callback}): the persistence layer deletes
\* callback from the set of listeners of the key; a function that was never
\* added is not in the set.
unwatch(cl, c, callback) ==
    IF callback = InitListener /\ cl.watchers[c] > 0
      THEN [cl EXCEPT !.watchers[c] = @ - 1]
      ELSE cl

NoWrite == [raw |-> Absent, value |-> Undefined, reset |-> FALSE, id |-> 0]

(***************************************************************************)
(* The status and heartbeat cells (store.ts), the heartbeat of the         *)
(* background service worker (background/index.ts) and the liveness check  *)
(* of the popup (popup/index.svelte).                                      *)
(***************************************************************************)
\* A service worker that writes the heartbeat every 15 s.
heartbeatInterval_Slow == 3 * 5000

heartbeatInterval == 5000

checkInterval == 5000

heartbeatTimeout == 10000

\* The clock of the heartbeat specification advances in steps of TickMs.
TickMs == checkInterval \div 2

StatusDef ==
    [isAnswering |-> FALSE, isDownloading |-> FALSE, isEmbedding |-> FALSE,
     showStop |-> FALSE, hasTimeout |-> FALSE]

StatusValues ==
    [isAnswering : BOOLEAN, isDownloading : BOOLEAN, isEmbedding : BOOLEAN,
     showStop : BOOLEAN, hasTimeout : BOOLEAN]

JsonBool(b) == IF b THEN "true" ELSE "false"

\* JSON.stringify of a Status object.
StringifyStatus(s) ==
    "{\"isAnswering\":" \o JsonBool(s.isAnswering)
    \o ",\"isDownloading\":" \o JsonBool(s.isDownloading)
    \o ",\"isEmbedding\":" \o JsonBool(s.isEmbedding)
    \o ",\"showStop\":" \o JsonBool(s.showStop)
    \o ",\"hasTimeout\":" \o JsonBool(s.hasTimeout) \o "}"

\* JSON.parse of the text of a Status object.
ParseStatus(raw) == CHOOSE s \in StatusValues : StringifyStatus(s) = raw

Digits == <<"0", "1", "2", "3", "4", "5", "6", "7", "8", "9">>

\* JSON.stringify of a non-negative integer.
RECURSIVE StringifyNumber(_)
StringifyNumber(n) ==
    IF n < 10 THEN Digits[n + 1]
    ELSE StringifyNumber(n \div 10) \o Digits[(n % 10) + 1]

\* JSON.parse of the text of a non-negative integer.
RECURSIVE ParseNumber(_)
ParseNumber(raw) ==
    LET last == SubSeq(raw, Len(raw), Len(raw))
        d == (CHOOSE i \in 1..10 : Digits[i] = last) - 1
    IN IF Len(raw) = 1 THEN d
       ELSE 10 * ParseNumber(SubSeq(raw, 1, Len(raw) - 1)) + d

\* The values of the progress cell and its default.
ProgressValues == [processed : 0..MaxChunks, total : 0..MaxChunks]

ProgressDef == [processed |-> 0, total |-> 0]

\* JSON.stringify of a Progress object.  The popup writes the keys in the
\* order processed, total and the background in the order total, processed;
\* the popup only writes processed 0 and the background never does, so that
\* two writes have the same text exactly when they have the same value.
StringifyProgress(p) ==
    "{\"processed\":" \o StringifyNumber(p.processed)
    \o ",\"total\":" \o StringifyNumber(p.total) \o "}"

\* JSON.parse of the text of a Progress object.
ParseProgress(raw) == CHOOSE p \in ProgressValues : StringifyProgress(p) = raw

\* JSON.stringify and JSON.parse of the values of a cell of the given kind.
StringifyAs(kind, v) ==
    CASE kind = "status" -> StringifyStatus(v)
      [] kind = "progress" -> StringifyProgress(v)
      [] kind = "number" -> StringifyNumber(v)
      [] kind = "bool" -> JsonBool(v)
      [] kind = "string" -> Stringify(v)

ParseAs(kind, raw) ==
    CASE kind = "status" -> ParseStatus(raw)
      [] kind = "progress" -> ParseProgress(raw)
      [] kind = "number" -> ParseNumber(raw)
      [] kind = "bool" -> (raw = "true")
      [] kind = "string" -> Parse(raw)

\* The write that set(v) hands to the persistence layer.
WriteOf(kind, v) == [raw |-> StringifyAs(kind, v), value |-> v]

\* getStorage, init and the listener of a cell of the given kind.
getStorageOf(cl, def, kind) ==
    IF cl.stored = Absent THEN def ELSE ParseAs(kind, cl.stored)

\* An init that registers its listener only when the context has none.
StoreInitOf_Deduplicating(cl, c, def, kind) ==
    [cl EXCEPT !.mem[c] = getStorageOf(cl, def, kind), !.watchers[c] = 1]

StoreInitOf(cl, c, def, kind) ==
    [cl EXCEPT !.mem[c] = getStorageOf(cl, def, kind), !.watchers[c] = @ + 1]

WatchCallbackOf(cl, c, kind) ==
    [cl EXCEPT !.mem[c] = ParseAs(kind, Head(cl.events[c])), !.events[c] = Tail(@)]

\* The listeners of context c receive every notification on its way.
RECURSIVE Drain(_, _, _)
Drain(cl, c, kind) ==
    IF cl.events[c] = <<>> THEN cl
    ELSE Drain(WatchCallbackOf(cl, c, kind), c, kind)

\* The persistence layer commits the oldest write of context c and the
\* listeners of both contexts receive the change notification at once.
Committed(cl, c, kind) ==
    Drain(Drain(StorageCommit(cl, c), "popup", kind), "bg", kind)

\* await set(v) in a handler of context c: the handler goes on once the
\* persistence layer has committed the write.
SetAwaited(cl, c, kind, v) == Committed(StoreSet(cl, c, WriteOf(kind, v)), c, kind)

\* The window of context c is closed: its copy of the cell, its listeners and
\* the notifications on their way to it are gone; the writes it has issued
\* are still served.
ContextGone(cl, c, def) ==
    [cl EXCEPT !.mem[c] = def, !.watchers[c] = 0, !.events[c] = <<>>]

(***************************************************************************)
(* similaritySearch: the retrieval step of the answer handler.  Vectors    *)
(* are axis-aligned integer vectors, for which the Euclidean norm is the   *)
(* sum of the absolute values, so that cosine is computed exactly.         *)
(***************************************************************************)
Vectors == {<<1, 0>>, <<0, 1>>, <<-1, 0>>, <<2, 0>>}

Abs(n) == IF n < 0 THEN -n ELSE n

Dot(p, q) == p[1] * q[1] + p[2] * q[2]

Norm(p) == Abs(p[1]) + Abs(p[2])

\* similarity.cosine of ml-distance: dot(p, q) / (|p| |q|).
cosine(p, q) == Dot(p, q) \div (Norm(p) * Norm(q))

\* The text of the chunk at a position of the knowledge base; every second
\* chunk ends with a full stop.
ChunkText(i) == "chunk" \o ToString(i) \o (IF i % 2 = 0 THEN "." ELSE "")

\* The entry processEmbeddings builds for the chunk at position i (ids are
\* String(i) for the zero-based i of the source).
EmbeddingOf(i, v) == [id |-> ToString(i - 1), text |-> ChunkText(i), embeddings |-> v]

\* The indexes processEmbeddings can build over at most MaxIndex chunks.
Indexes ==
    UNION {{[i \in 1..n |-> EmbeddingOf(i, vs[i])] : vs \in [1..n -> Vectors]}
               : n \in 0..MaxIndex}

\* index.map((vector, idx) => ({similarity: cosine(query, vector.embeddings), idx}))
Scored(index, query) ==
    [i \in 1..Len(index) |->
        [similarity |-> cosine(query, index[i].embeddings), idx |-> i]]

\* modelEmbeddings.process(q): the vector the feature-extraction model
\* returns for a chunk, a function of the chunk's text.
process(q) ==
    IF Len(q) > 0 /\ SubSeq(q, Len(q), Len(q)) = "." THEN <<0, 1>> ELSE <<1, 0>>

\* processEmbeddings(kb, modelEmbeddings): processed.map(({result}, i) =>
\* ({id: String(i), text: kb[i], embeddings: result})).
processEmbeddings(kb) ==
    [i \in 1..Len(kb) |->
        [id |-> ToString(i - 1), text |-> kb[i], embeddings |-> process(kb[i])]]

\* A comparator that orders by ascending similarity.
Compare_Ascending(a, b) == a.similarity - b.similarity

\* A comparator that never reports a tie.
Compare_NoTies(a, b) ==
    IF a.similarity = b.similarity THEN 1 ELSE b.similarity - a.similarity

\* The comparator given to sort: (a, b) => b.similarity - a.similarity.
Compare(a, b) == b.similarity - a.similarity

\* Array.prototype.sort is stable: an element is placed after every element
\* that the comparator does not order behind it.
RECURSIVE InsertSorted(_, _)
InsertSorted(s, x) ==
    IF s = <<>> THEN <<x>>
    ELSE IF Compare(Head(s), x) <= 0
         THEN <<Head(s)>> \o InsertSorted(Tail(s), x)
         ELSE <<x>> \o s

RECURSIVE sort(_)
sort(s) ==
    IF s = <<>> THEN <<>>
    ELSE InsertSorted(sort(SubSeq(s, 1, Len(s) - 1)), s[Len(s)])

\* Array.prototype.slice(0, k) for a natural k.
slice(s, k) == SubSeq(s, 1, IF k < Len(s) THEN k ELSE Len(s))

similaritySearch(index, query, k) ==
    LET searches == slice(sort(Scored(index, query)), k)
    IN  [j \in 1..Len(searches) |->
            [id    |-> index[searches[j].idx].id,
             text  |-> index[searches[j].idx].text,
             score |-> searches[j].similarity]]

\* Number(await storage.get("topK")) when the settings were never saved.
defaultTopK == 5

\* The questions the form is submitted with; the form submits nothing
\* without a question.
Questions == {"q", "Why?"}

\* s.endsWith(".")
EndsWithDot(s) == Len(s) > 0 /\ SubSeq(s, Len(s), Len(s)) = "."

\* A block that numbers the results from zero.
Block_ZeroBased(n, idx) ==
    ToString(idx - 1) \o ") " \o n.text \o (IF EndsWithDot(n.text) THEN "" ELSE ".")

\* `${idx + 1}) ${n.text}${n.text.endsWith(".") ? "" : "."}` for the result
\* at position idx of nearests (positions count from 1 here).
Block(n, idx) ==
    ToString(idx) \o ") " \o n.text \o (IF EndsWithDot(n.text) THEN "" ELSE ".")

\* nearests.map(...).join("\n\n"), from position idx on.
RECURSIVE JoinBlocks(_, _)
JoinBlocks(nearests, idx) ==
    IF idx > Len(nearests) THEN ""
    ELSE IF idx = Len(nearests) THEN Block(nearests[idx], idx)
    ELSE Block(nearests[idx], idx) \o "\n\n" \o JoinBlocks(nearests, idx + 1)

ContextOf(nearests) == JoinBlocks(nearests, 1)

\* if (context !== "") currentPrompt = `Context:\n\n${context}\n\nQuestion:
\* ${question}\nAnswer:`; otherwise currentPrompt is the question.
ComposePrompt(question, context) ==
    IF context # ""
      THEN "Context:\n\n" \o context \o "\n\nQuestion: " \o question \o "\nAnswer:"
      ELSE question

(***************************************************************************)
(* The popup's requests (popup/index.svelte) and the port handlers of the  *)
(* background (background/ports/embedding.ts, background/ports/answer.ts). *)
(* In this part a change notification reaches its listeners as soon as the *)
(* change is committed; the delays between a commit and its notifications  *)
(* are the subject of the specification of the synchronized store.         *)
(***************************************************************************)
RunIds == 1..MaxRequests

\* The page the popup was opened on, and the serialized size of its
\* embeddings.
RunSite == 1

RunDataSize == 100 * MB

\* What one iteration of the generation stream can yield, its pieces
\* concatenated: text, a period after a space, two of those, a period
\* after two spaces.
Pieces == {"a", " .", " . .", "  ."}

\* The pieces the generation stream yields, in order.
Stream == <<"a", " .", "b", " .">>

\* The position of the first " ." in s at or after i, or 0.
RECURSIVE IndexOfSpaceDot(_, _)
IndexOfSpaceDot(s, i) ==
    IF i + 1 > Len(s) THEN 0
    ELSE IF SubSeq(s, i, i + 1) = " ." THEN i
    ELSE IndexOfSpaceDot(s, i + 1)

\* currentOutput.replace(" .", "."): a string pattern replaces the first
\* occurrence only.
ReplaceSpaceDot(s) ==
    LET i == IndexOfSpaceDot(s, 1)
    IN IF i = 0 THEN s
       ELSE SubSeq(s, 1, i - 1) \o "." \o SubSeq(s, i + 2, Len(s))

\* One invocation of a port handler: which handler, where it is, the Status
\* it last read, its accumulated output and the pieces it has appended;
\* stopSeen records that the stop flag became true in the background while
\* the run was streaming, late that the run appended a piece after that.
NoRun == [kind |-> "none", pc |-> "none", read |-> StatusDef,
          currentOutput |-> "", pieces |-> 0, processedSoFar |-> 0,
          stopSeen |-> FALSE, late |-> FALSE, outcome |-> "none",
          final |-> StatusDef]

\* The handler has returned: its locals are gone.
Returned(run) ==
    [NoRun EXCEPT !.kind = run.kind, !.pc = "ended",
                  !.stopSeen = run.stopSeen, !.late = run.late,
                  !.outcome = run.outcome, !.final = run.final]

\* The context was reloaded while the handler was running.
Killed(run) == [Returned(run) EXCEPT !.pc = "killed"]

InFlight(rs, kind) ==
    {r \in RunIds : rs[r].kind = kind /\ rs[r].pc \notin {"ended", "killed"}}

\* What a step of a handler can throw: an Error with a message, an Error
\* without one (new Error()), or a value that is not an Error.
Thrown == {[isError |-> TRUE, message |-> "oom"],
           [isError |-> TRUE, message |-> ""],
           [isError |-> FALSE, message |-> "42"]}

\* e instanceof Error ? e.message : fallback.
ErrorMessage(e, fallback) == IF e.isError THEN e.message ELSE fallback

\* stop.subscribe((value) => { currStop = value }): from the subscription
\* on, currStop of every run is the background's value of the stop cell.
currStop(st) == st.mem["bg"]

MarkStopSeen(rs, st) ==
    [r \in RunIds |->
        IF rs[r].pc = "stream" /\ currStop(st)
          THEN [rs[r] EXCEPT !.stopSeen = TRUE]
          ELSE rs[r]]

(***************************************************************************)
(* Initial states.  Each specification starts every part of the program in *)
(* its state after construction.                                           *)
(***************************************************************************)
NoOp == [kind |-> "none", before |-> [k \in Sites |-> NoItem],
         validated |-> [k \in Sites |-> NoItem],
         embedIndex |-> NoCandidate, site |-> 0, outcome |-> "returned"]

\* Date.now() is a positive number of milliseconds.
StartTime == 1000 * 60

ClockIdle ==
    /\ now = StartTime
    /\ ticks = 0

CacheIdle ==
    /\ embeddingIndexDB = [k \in Sites |-> NoItem]
    /\ lastOp = NoOp

StoreIdle ==
    /\ cell = createStore(CellDef)
    /\ storeGhost = [ops |-> 0,
                     lastSettled |-> NoWrite,
                     memOwn |-> [c \in Contexts |-> 0],
                     lost |-> [c \in Contexts |-> FALSE],
                     writers |-> {},
                     destroyed |-> [c \in Contexts |-> FALSE],
                     lastGet |-> NoGet]

NoCheck == [kind |-> "none", diff |-> 0, before |-> StatusDef,
            after |-> StatusDef, issued |-> FALSE, alive |-> TRUE]

\* The chunks of a page the content script has parsed.
ParsedPage == <<"chunk">>

\* The knowledge bases a request carries: the chunks of a page store that
\* holds its default [""], and those of a parsed page.
KnowledgeBases == {<<"">>, ParsedPage}

\* The popup is closed; context is what the page store of the tab holds and
\* question is what the form is submitted with.
PopupClosed(kb) ==
    [open |-> FALSE, mounted |-> FALSE, next |-> 0, runs |-> 0,
     hasEmbedded |-> FALSE, opens |-> 0, posts |-> 0, stops |-> 0,
     context |-> kb, question |-> "q"]

\* The service worker has just been started: its top level has called
\* setHeartbeat() and setInterval(setHeartbeat, 5000).
BackgroundStarted ==
    /\ heartbeat = StoreSet(createStore(StartTime), "bg",
                            WriteOf("number", StartTime))
    /\ status = createStore(StatusDef)
    /\ bg = [alive |-> TRUE, next |-> StartTime + heartbeatInterval, runs |-> 0,
             download |-> "idle"]
    /\ lag = 0
    /\ lastCheck = NoCheck

\* The service worker has just been started and the popup is closed, on a
\* tab whose page has been parsed.
HeartbeatIdle == BackgroundStarted /\ popup = PopupClosed(ParsedPage)

\* No retrieval has taken place.  index is the data an entry of the cache
\* holds for the site of the tab (the embeddings of the parsed page), query
\* the embedding the models compute for the question and k the topK
\* setting; highlight is the body of the last highlight message sent to the
\* content script.
SearchIdle ==
    search = [index |-> <<[id |-> "0", text |-> ParsedPage[1],
                           embeddings |-> <<1, 0>>]>>,
              query |-> <<1, 0>>, k |-> defaultTopK,
              result |-> <<>>, done |-> FALSE,
              highlight |-> <<>>, highlighted |-> FALSE]

\* No request has been posted and no handler is running.  invoked is the
\* number of listeners of the background that the last change of the stop
\* flag committed for the popup has called.
HandlersIdle ==
    /\ inflight = [k \in Sites |-> NoInsert]
    /\ stop = createStore(FALSE) @@ [invoked |-> 0]
    /\ output = createStore("")
    /\ ports = [answer |-> 0, embedding |-> 0]
    /\ runs = [r \in RunIds |-> NoRun]
    /\ error = createStore("")
    /\ prompt = createStore("")
    /\ progress = createStore(ProgressDef)
    /\ timers = [reload |-> FALSE, answer |-> FALSE, embedding |-> FALSE,
                 download |-> FALSE]

\* As HandlersIdle, with the answer model about to yield Stream.
RunsIdle == HandlersIdle /\ stream = Stream

HeartbeatInit == ClockIdle /\ CacheIdle /\ StoreIdle /\ HeartbeatIdle /\ RunsIdle
    /\ SearchIdle

CacheInit == ClockIdle /\ CacheIdle /\ StoreIdle /\ HeartbeatIdle /\ RunsIdle
    /\ SearchIdle

StoreInit == ClockIdle /\ CacheIdle /\ StoreIdle /\ HeartbeatIdle /\ RunsIdle
    /\ SearchIdle

RunsInit == ClockIdle /\ CacheIdle /\ StoreIdle /\ HeartbeatIdle /\ RunsIdle
    /\ SearchIdle

\* As RunsInit, on a tab whose page store holds either knowledge base.
EmbeddingInit ==
    /\ ClockIdle /\ CacheIdle /\ StoreIdle /\ BackgroundStarted /\ RunsIdle
    /\ SearchIdle
    /\ \E kb \in KnowledgeBases : popup = PopupClosed(kb)

(***************************************************************************)
(* The synchronized store: its operations.                                 *)
(***************************************************************************)
\* Context c calls set(v).
set(c, v) ==
    /\ storeGhost.ops < MaxOps
    /\ LET id == storeGhost.ops + 1
           w == [raw |-> Stringify(v), value |-> v, reset |-> FALSE, id |-> id]
       IN /\ cell' = StoreSet(cell, c, w)
          /\ storeGhost' = [storeGhost EXCEPT !.ops = id,
                                              !.memOwn[c] = id,
                                              !.lost[c] = FALSE]
    /\ UNCHANGED notStore

\* A reset that persists the value in memory instead of the default.
resetWrite_Stale(c, id) ==
    [raw |-> Stringify(cell.mem[c]), value |-> CellDef, reset |-> TRUE,
     id |-> id]

\* reset's write: await storage.set(name, def).
resetWrite(c, id) ==
    [raw |-> Stringify(CellDef), value |-> CellDef, reset |-> TRUE, id |-> id]

\* Context c calls reset(): set(def); await storage.set(name, def).
reset(c) ==
    /\ storeGhost.ops < MaxOps
    /\ LET id == storeGhost.ops + 1
       IN /\ cell' = StoreSet(cell, c, resetWrite(c, id))
          /\ storeGhost' = [storeGhost EXCEPT !.ops = id,
                                              !.memOwn[c] = id,
                                              !.lost[c] = FALSE]
    /\ UNCHANGED notStore

\* Context c calls init().
init(c) ==
    /\ cell.watchers[c] < MaxInits
    /\ cell' = StoreInitCell(cell, c, CellDef)
    /\ storeGhost' = [storeGhost EXCEPT !.memOwn[c] = 0, !.lost[c] = FALSE,
                                        !.destroyed[c] = FALSE]
    /\ UNCHANGED notStore

\* Context c calls getStorage() and the read returns.
getStorageCalled(c) ==
    /\ storeGhost' = [storeGhost EXCEPT
                          !.lastGet = [value |-> getStorage(cell, CellDef)]]
    /\ UNCHANGED cell
    /\ UNCHANGED notStore

\* storage.remove(name), issued by context c.
removeWrite(id) ==
    [raw |-> Absent, value |-> Undefined, reset |-> FALSE, id |-> id]

\* Context c calls destroy(): storage.unwatch({[name]: (c) => {...}});
\* await storage.remove(name).
destroy(c) ==
    /\ storeGhost.ops < MaxOps
    /\ LET id == storeGhost.ops + 1
           cl == unwatch(cell, c, DestroyListener)
       IN /\ cell' = [cl EXCEPT !.writes[c] = Append(@, removeWrite(id))]
          /\ storeGhost' = [storeGhost EXCEPT !.ops = id,
                                              !.destroyed[c] = TRUE]
    /\ UNCHANGED notStore

\* storage.set of context c's oldest write resolves.
WriteFulfilled(c) ==
    /\ cell.writes[c] # <<>>
    /\ cell' = StorageCommit(cell, c)
    /\ storeGhost' = [storeGhost EXCEPT !.lastSettled = Head(cell.writes[c]),
                                        !.writers = @ \cup {c}]
    /\ UNCHANGED notStore

\* storage.set of context c's oldest write rejects.
WriteRejected(c) ==
    /\ cell.writes[c] # <<>>
    /\ cell' = StorageReject(cell, c)
    /\ storeGhost' = [storeGhost EXCEPT
                          !.lost[c] = @ \/ storeGhost.memOwn[c]
                                              = Head(cell.writes[c]).id]
    /\ UNCHANGED notStore

WriteSettled(c) == WriteFulfilled(c) \/ WriteRejected(c)

\* A change notification reaches context c.
Notified(c) ==
    /\ cell.events[c] # <<>>
    /\ cell' = WatchCallback(cell, c)
    /\ storeGhost' = [storeGhost EXCEPT !.memOwn[c] = 0, !.lost[c] = FALSE]
    /\ UNCHANGED notStore

StoreNext ==
    \/ \E c \in Contexts, v \in CellValues : set(c, v)
    \/ \E c \in Contexts : reset(c)
    \/ \E c \in Contexts : init(c)
    \/ \E c \in Contexts : WriteFulfilled(c)
    \/ \E c \in Contexts : WriteRejected(c)
    \/ \E c \in Contexts : Notified(c)

\* Every write in flight settles and every notification is delivered.
SpecStore ==
    /\ StoreInit
    /\ [][StoreNext]_vars
    /\ \A c \in Contexts : WF_vars(WriteSettled(c)) /\ WF_vars(Notified(c))

\* The store with the reads of the persisted value.
GetNext == StoreNext \/ \E c \in Contexts : getStorageCalled(c)

SpecGet == StoreInit /\ [][GetNext]_vars

\* The store with destroy among its operations.
DestroyNext == StoreNext \/ \E c \in Contexts : destroy(c)

SpecDestroy == StoreInit /\ [][DestroyNext]_vars


(***************************************************************************)
(* The cache: its operations.                                              *)
(***************************************************************************)
\* Time passes.
ClockTick ==
    /\ ticks < MaxTicks
    /\ \E d \in ClockSteps : now' = now + d
    /\ ticks' = ticks + 1
    /\ lastOp' = NoOp
    /\ UNCHANGED embeddingIndexDB
    /\ UNCHANGED notCache

\* popup initPageStore: await validateCache() with no candidate.
initPageStore ==
    LET r == validateCache(embeddingIndexDB, now, NoCandidate)
    IN /\ embeddingIndexDB' = r.db
       /\ lastOp' = [kind |-> "sweep", before |-> embeddingIndexDB,
                     validated |-> r.db, embedIndex |-> NoCandidate,
                     site |-> 0, outcome |-> r.outcome]
       /\ UNCHANGED <<now, ticks>>
       /\ UNCHANGED notCache

\* handlerEmbeddings, its cache part: item = {data, timestamp: Date.now()},
\* await validateCache(data), await embeddingIndexDB.setItem(site, item); a
\* throw of validateCache goes to the catch block and nothing is inserted.
handlerEmbeddingsStore ==
    \E site \in Sites, size \in DataSizes :
        LET r == validateCache(embeddingIndexDB, now, size)
        IN /\ embeddingIndexDB' =
                 IF r.outcome = "returned"
                   THEN [r.db EXCEPT ![site] = CacheItem(size, now)]
                   ELSE r.db
           /\ lastOp' = [kind |-> "embed", before |-> embeddingIndexDB,
                         validated |-> r.db, embedIndex |-> size,
                         site |-> site, outcome |-> r.outcome]
           /\ UNCHANGED <<now, ticks>>
           /\ UNCHANGED notCache

\* embeddingIndexDB.clear() (downloadModels, saveSettings).
clearCache ==
    /\ Keys(embeddingIndexDB) # {}
    /\ embeddingIndexDB' = [k \in Sites |-> NoItem]
    /\ lastOp' = NoOp
    /\ UNCHANGED <<now, ticks>>
    /\ UNCHANGED notCache

CacheNext ==
    \/ ClockTick
    \/ initPageStore
    \/ handlerEmbeddingsStore
    \/ clearCache

SpecCache == CacheInit /\ [][CacheNext]_vars

\* handlerEmbeddings for a site, up to its first await after the item is
\* built: item = {data, timestamp: Date.now()}; await validateCache(data).
\* A throw of validateCache goes to the catch block and the handler returns
\* without an insert.  The popup posts the request for a site that has no
\* entry (handleEmbeddings: if (embedKeys.includes(storageSiteKey)) return),
\* whatever the handlers of other sites are doing.
embeddingsValidated(site) ==
    /\ inflight[site].pc = "idle"
    /\ embeddingIndexDB[site] = NoItem
    /\ \E size \in DataSizes :
          LET v == validateCache(embeddingIndexDB, now, size)
          IN /\ embeddingIndexDB' = v.db
             /\ inflight' = [inflight EXCEPT ![site] =
                                 IF v.outcome = "returned"
                                   THEN [pc |-> "validated", size |-> size,
                                         timestamp |-> now]
                                   ELSE NoInsert]
    /\ UNCHANGED <<now, ticks, lastOp>>
    /\ UNCHANGED <<storeVars, hbVars, runVars, search, stream>>

\* handlerEmbeddings for a site: await embeddingIndexDB.setItem(site, item).
embeddingsInserted(site) ==
    /\ inflight[site].pc = "validated"
    /\ embeddingIndexDB' =
           [embeddingIndexDB EXCEPT
               ![site] = CacheItem(inflight[site].size, inflight[site].timestamp)]
    /\ inflight' = [inflight EXCEPT ![site].pc = "stored"]
    /\ UNCHANGED <<now, ticks, lastOp>>
    /\ UNCHANGED <<storeVars, hbVars, runVars, search, stream>>

\* handlerEmbeddings for a site returns after its finally block.
embeddingsReturned(site) ==
    /\ inflight[site].pc = "stored"
    /\ inflight' = [inflight EXCEPT ![site] = NoInsert]
    /\ UNCHANGED <<embeddingIndexDB, now, ticks, lastOp>>
    /\ UNCHANGED <<storeVars, hbVars, runVars, search, stream>>

\* The embedding handlers of several sites, interleaved at their awaits.
ConcurrentNext ==
    \/ \E site \in Sites : embeddingsValidated(site)
    \/ \E site \in Sites : embeddingsInserted(site)
    \/ \E site \in Sites : embeddingsReturned(site)

SpecConcurrent == CacheInit /\ [][ConcurrentNext]_vars

(***************************************************************************)
(* The heartbeat monitor: its operations.                                  *)
(***************************************************************************)
HeartbeatInFlight(hb) ==
    hb.writes["bg"] # <<>> \/ \E c \in Contexts : hb.events[c] # <<>>

\* Time passes.  A due timer fires before the clock moves on, and a
\* heartbeat write with its notifications is in flight for at most
\* MaxDelayTicks ticks.
HeartbeatTick ==
    /\ ticks < MaxHbTicks
    /\ bg.alive => now < bg.next
    /\ popup.open => now < popup.next
    /\ HeartbeatInFlight(heartbeat) => lag < MaxDelayTicks
    /\ now' = now + TickMs
    /\ ticks' = ticks + 1
    /\ lag' = IF HeartbeatInFlight(heartbeat) THEN lag + 1 ELSE 0
    /\ UNCHANGED <<heartbeat, status, bg, popup, lastCheck>>
    /\ UNCHANGED notHeartbeat

\* background: setInterval(setHeartbeat, 5000); setHeartbeat calls
\* heartbeat.set(Date.now()).
setHeartbeat ==
    /\ bg.alive
    /\ now = bg.next
    /\ heartbeat' = StoreSet(heartbeat, "bg", WriteOf("number", now))
    /\ bg' = [bg EXCEPT !.next = now + heartbeatInterval]
    /\ UNCHANGED <<status, popup, lag, lastCheck>>
    /\ UNCHANGED <<clockVars, notHeartbeat>>

\* The persistence layer commits the oldest heartbeat write.
HeartbeatPersisted ==
    /\ heartbeat.writes["bg"] # <<>>
    /\ heartbeat' = StorageCommit(heartbeat, "bg")
    /\ lag' = IF HeartbeatInFlight(heartbeat') THEN lag ELSE 0
    /\ UNCHANGED <<status, bg, popup, lastCheck>>
    /\ UNCHANGED <<clockVars, notHeartbeat>>

\* The popup's heartbeat listener receives a change notification.
HeartbeatNotified ==
    /\ heartbeat.events["popup"] # <<>>
    /\ heartbeat' = WatchCallbackOf(heartbeat, "popup", "number")
    /\ lag' = IF HeartbeatInFlight(heartbeat') THEN lag ELSE 0
    /\ UNCHANGED <<status, bg, popup, lastCheck>>
    /\ UNCHANGED <<clockVars, notHeartbeat>>

\* The popup is opened: its copy of the store module creates the heartbeat
\* cell with the default Date.now(), heartbeat.init() loads the persisted
\* value, and the first checkHeartbeat is due at once.
popupOpen ==
    /\ ~popup.open
    /\ popup.opens < MaxOpens
    /\ heartbeat' = StoreInitOf(heartbeat, "popup", now, "number")
    /\ popup' = [popup EXCEPT !.open = TRUE, !.next = now, !.opens = @ + 1]
    /\ UNCHANGED <<status, bg, lag, lastCheck>>
    /\ UNCHANGED <<clockVars, notHeartbeat>>

\* popup onMount: Promise.all([status.init(), ..., output.init(), ...]) and
\* initPageStore with its await validateCache(); the form is rendered once
\* the cells are initialised and accepts a submission once the page store
\* is loaded.
popupMount ==
    /\ popup.open
    /\ ~popup.mounted
    /\ embeddingIndexDB' = validateCache(embeddingIndexDB, now, NoCandidate).db
    /\ status' = StoreInitOf(status, "popup", StatusDef, "status")
    /\ output' = StoreInitOf(output, "popup", "", "string")
    /\ error' = StoreInitOf(error, "popup", "", "string")
    /\ prompt' = StoreInitOf(prompt, "popup", "", "string")
    /\ progress' = StoreInitOf(progress, "popup", ProgressDef, "progress")
    /\ popup' = [popup EXCEPT !.mounted = TRUE]
    /\ UNCHANGED <<heartbeat, bg, lag, lastCheck>>
    /\ UNCHANGED <<clockVars, lastOp, storeVars, stop, ports, runs, timers,
                   search, stream, inflight>>

\* The liveness test with the threshold itself counted as stale.
IsStale_AtThreshold(hb, t) == hb # 0 /\ t - hb >= heartbeatTimeout

\* if ($heartbeat) { ... if (Date.now() - $heartbeat > 10000) ... }
IsStale(hb, t) == hb # 0 /\ t - hb > heartbeatTimeout

\* popup: checkHeartbeat, immediately after heartbeat.init() and then every
\* 5 seconds; a stale heartbeat makes it call status.reset().
checkHeartbeat ==
    /\ popup.open
    /\ now = popup.next
    /\ status' = IF IsStale(heartbeat.mem["popup"], now)
                   THEN StoreSet(status, "popup",
                                 WriteOf("status", StatusDef))
                   ELSE status
    /\ popup' = [popup EXCEPT !.next = now + checkInterval]
    /\ lastCheck' = [kind |-> "check",
                     diff |-> now - heartbeat.mem["popup"],
                     before |-> status.mem["popup"],
                     after |-> status'.mem["popup"],
                     issued |-> status'.writes["popup"] # status.writes["popup"],
                     alive |-> bg.alive]
    /\ UNCHANGED <<heartbeat, bg, lag>>
    /\ UNCHANGED <<clockVars, notHeartbeat>>

\* popup handleAnswer: $status.isAnswering = true.
popupSetsAnswering ==
    /\ popup.mounted
    /\ popup.runs < MaxRuns
    /\ ~status.mem["popup"].isAnswering
    /\ popup' = [popup EXCEPT !.runs = @ + 1]
    /\ status' = StoreSet(status, "popup",
                          WriteOf("status",
                                  [status.mem["popup"] EXCEPT !.isAnswering = TRUE]))
    /\ UNCHANGED <<heartbeat, bg, lag, lastCheck>>
    /\ UNCHANGED <<clockVars, notHeartbeat>>

\* background handlerAnswer, finally: status.set({...(await
\* status.getStorage()), isAnswering: false, showStop: false, hasTimeout:
\* false}).
bgClearsAnswering ==
    /\ bg.alive
    /\ bg.runs < MaxRuns
    /\ getStorageOf(status, StatusDef, "status").isAnswering
    /\ bg' = [bg EXCEPT !.runs = @ + 1]
    /\ status' = StoreSet(status, "bg",
                          WriteOf("status",
                                  [getStorageOf(status, StatusDef, "status")
                                      EXCEPT !.isAnswering = FALSE,
                                             !.showStop = FALSE,
                                             !.hasTimeout = FALSE]))
    /\ UNCHANGED <<heartbeat, popup, lag, lastCheck>>
    /\ UNCHANGED <<clockVars, notHeartbeat>>

\* The persistence layer commits the oldest status write of context c.
StatusPersisted(c) ==
    /\ status.writes[c] # <<>>
    /\ status' = StorageCommit(status, c)
    /\ UNCHANGED <<heartbeat, bg, popup, lag, lastCheck>>
    /\ UNCHANGED <<clockVars, notHeartbeat>>

\* The popup's status listener receives a change notification.
StatusNotified ==
    /\ status.events["popup"] # <<>>
    /\ status' = WatchCallbackOf(status, "popup", "status")
    /\ UNCHANGED <<heartbeat, bg, popup, lag, lastCheck>>
    /\ UNCHANGED <<clockVars, notHeartbeat>>

\* The host terminates the service worker; its timers stop.
bgTerminated ==
    /\ bg.alive
    /\ bg' = [bg EXCEPT !.alive = FALSE]
    /\ UNCHANGED <<heartbeat, status, popup, lag, lastCheck>>
    /\ UNCHANGED <<clockVars, notHeartbeat>>

\* background: chrome.runtime.onSuspend: status.reset(), then the service
\* worker is gone.
onSuspend ==
    /\ bg.alive
    /\ bg' = [bg EXCEPT !.alive = FALSE]
    /\ status' = StoreSet(status, "bg", WriteOf("status", StatusDef))
    /\ UNCHANGED <<heartbeat, popup, lag, lastCheck>>
    /\ UNCHANGED <<clockVars, notHeartbeat>>

HeartbeatNext ==
    \/ HeartbeatTick
    \/ setHeartbeat
    \/ HeartbeatPersisted
    \/ HeartbeatNotified
    \/ popupOpen
    \/ popupMount
    \/ checkHeartbeat
    \/ popupSetsAnswering
    \/ bgClearsAnswering
    \/ \E c \in Contexts : StatusPersisted(c)
    \/ StatusNotified
    \/ bgTerminated
    \/ onSuspend

SpecHeartbeat == HeartbeatInit /\ [][HeartbeatNext]_vars

(***************************************************************************)
(* The popup's requests and the port handlers: their operations.           *)
(***************************************************************************)
\* The popup window is closed.
closePopup ==
    /\ popup.open
    /\ popup' = [popup EXCEPT !.open = FALSE, !.mounted = FALSE,
                              !.hasEmbedded = FALSE]
    /\ status' = ContextGone(status, "popup", StatusDef)
    /\ stop' = ContextGone(stop, "popup", FALSE)
    /\ output' = ContextGone(output, "popup", "")
    /\ heartbeat' = ContextGone(heartbeat, "popup", StartTime)
    /\ error' = ContextGone(error, "popup", "")
    /\ prompt' = ContextGone(prompt, "popup", "")
    /\ progress' = ContextGone(progress, "popup", ProgressDef)
    /\ timers' = [timers EXCEPT !.answer = FALSE, !.embedding = FALSE]
    /\ UNCHANGED <<embeddingIndexDB, ports, runs>>
    /\ UNCHANGED notRuns

\* $progress.processed = 0; $progress.total = context.length: two sets of
\* the popup, each of the whole object.
ProgressReset(cl, n) ==
    LET first == StoreSet(cl, "popup",
                     WriteOf("progress", [cl.mem["popup"] EXCEPT !.processed = 0]))
    IN StoreSet(first, "popup",
           WriteOf("progress", [first.mem["popup"] EXCEPT !.total = n]))

\* popup: $: if (!$status.isDownloading && !isParsing && !hasEmbedded)
\* handleEmbeddings(), for a page that has been parsed: the progress is
\* reset, the request is posted and the watchdog is restarted, unless the
\* cache holds the site.
handleEmbeddings ==
    /\ popup.mounted
    /\ ~status.mem["popup"].isDownloading
    /\ ~popup.hasEmbedded
    /\ IF embeddingIndexDB[RunSite] # NoItem
         THEN /\ popup' = [popup EXCEPT !.hasEmbedded = TRUE]
              /\ UNCHANGED <<status, ports, timers, progress>>
         ELSE /\ popup.posts < MaxRequests
              /\ popup' = [popup EXCEPT !.hasEmbedded = TRUE, !.posts = @ + 1]
              /\ progress' = ProgressReset(progress, Len(popup.context))
              /\ status' = StoreSet(status, "popup",
                               WriteOf("status",
                                   [status.mem["popup"] EXCEPT !.isEmbedding = TRUE]))
              /\ ports' = [ports EXCEPT !.embedding = @ + 1]
              /\ timers' = [timers EXCEPT !.embedding = TRUE]
    /\ UNCHANGED <<embeddingIndexDB, heartbeat, stop, output, runs>>
    /\ UNCHANGED <<notRuns, error, prompt>>

\* popup: the settings are saved with another embeddings model (the
\* settings button is disabled only while answering): await
\* embeddingIndexDB.clear(); hasEmbedded = false.
saveSettings ==
    /\ popup.mounted
    /\ ~status.mem["popup"].isAnswering
    /\ embeddingIndexDB' = [k \in Sites |-> NoItem]
    /\ popup' = [popup EXCEPT !.hasEmbedded = FALSE]
    /\ UNCHANGED <<heartbeat, status, stop, output, ports, runs>>
    /\ UNCHANGED <<notRuns, textVars>>

\* A handleAnswer that clears the watchdog before it tests the guard.
handleAnswer_ClearingFirst ==
    /\ popup.mounted
    /\ IF status.mem["popup"].isAnswering
         THEN /\ timers' = [timers EXCEPT !.answer = FALSE]
              /\ UNCHANGED <<popup, status, output, ports>>
         ELSE /\ popup.posts < MaxRequests
              /\ popup' = [popup EXCEPT !.posts = @ + 1]
              /\ status' = StoreSet(status, "popup",
                               WriteOf("status",
                                   [status.mem["popup"] EXCEPT !.isAnswering = TRUE]))
              /\ output' = StoreSet(output, "popup", WriteOf("string", ""))
              /\ ports' = [ports EXCEPT !.answer = @ + 1]
              /\ timers' = [timers EXCEPT !.answer = TRUE]
    /\ UNCHANGED <<embeddingIndexDB, heartbeat, stop, runs>>
    /\ UNCHANGED <<notRuns, error, prompt, progress>>

\* popup: the form is submitted with a question: handleAnswer.  Past the
\* guard, clearTimeout(answerTimeout), the request is posted and the
\* watchdog is started.
handleAnswer ==
    /\ popup.mounted
    /\ IF status.mem["popup"].isAnswering
         THEN UNCHANGED <<popup, status, output, ports, timers>>
         ELSE /\ popup.posts < MaxRequests
              /\ popup' = [popup EXCEPT !.posts = @ + 1]
              /\ status' = StoreSet(status, "popup",
                               WriteOf("status",
                                   [status.mem["popup"] EXCEPT !.isAnswering = TRUE]))
              /\ output' = StoreSet(output, "popup", WriteOf("string", ""))
              /\ ports' = [ports EXCEPT !.answer = @ + 1]
              /\ timers' = [timers EXCEPT !.answer = TRUE]
    /\ UNCHANGED <<embeddingIndexDB, heartbeat, stop, runs>>
    /\ UNCHANGED <<notRuns, error, prompt, progress>>

\* popup: the answer watchdog fires, 120 s after the request was posted:
\* if ($status.isAnswering) $status.hasTimeout = true.
answerWatchdog ==
    /\ timers.answer
    /\ timers' = [timers EXCEPT !.answer = FALSE]
    /\ status' = IF status.mem["popup"].isAnswering
                   THEN StoreSet(status, "popup",
                            WriteOf("status",
                                [status.mem["popup"] EXCEPT !.hasTimeout = TRUE]))
                   ELSE status
    /\ UNCHANGED <<embeddingIndexDB, heartbeat, popup, stop, output, ports, runs>>
    /\ UNCHANGED <<notRuns, error, prompt, progress>>

\* popup: the embedding watchdog fires, 120 s after the request was posted:
\* if ($status.isEmbedding) $status.hasTimeout = true.
embeddingWatchdog ==
    /\ timers.embedding
    /\ timers' = [timers EXCEPT !.embedding = FALSE]
    /\ status' = IF status.mem["popup"].isEmbedding
                   THEN StoreSet(status, "popup",
                            WriteOf("status",
                                [status.mem["popup"] EXCEPT !.hasTimeout = TRUE]))
                   ELSE status
    /\ UNCHANGED <<embeddingIndexDB, heartbeat, popup, stop, output, ports, runs>>
    /\ UNCHANGED <<notRuns, error, prompt, progress>>

\* popup: the stop button, shown while $status.showStop: $stop = true.
stopClicked ==
    /\ popup.mounted
    /\ status.mem["popup"].showStop
    /\ popup.stops < MaxStops
    /\ popup' = [popup EXCEPT !.stops = @ + 1]
    /\ stop' = StoreSet(stop, "popup", WriteOf("bool", TRUE))
    /\ UNCHANGED <<embeddingIndexDB, heartbeat, status, output, ports, runs>>
    /\ UNCHANGED <<notRuns, textVars>>

\* The persistence layer commits the popup's oldest write of Status.
StatusWritten ==
    /\ status.writes["popup"] # <<>>
    /\ status' = Committed(status, "popup", "status")
    /\ UNCHANGED <<embeddingIndexDB, heartbeat, popup, stop, output, ports, runs>>
    /\ UNCHANGED <<notRuns, textVars>>

\* The persistence layer commits the popup's oldest write of the stop flag;
\* the background's stop listeners receive the change notification.
StopWritten ==
    /\ stop.writes["popup"] # <<>>
    /\ stop' = [Committed(stop, "popup", "bool") EXCEPT
                   !.invoked = IF Head(stop.writes["popup"]).raw # stop.stored
                                 THEN stop.watchers["bg"] ELSE @]
    /\ runs' = MarkStopSeen(runs, stop')
    /\ UNCHANGED <<embeddingIndexDB, heartbeat, status, popup, output, ports>>
    /\ UNCHANGED <<notRuns, textVars>>

\* The persistence layer commits the popup's oldest write of the progress;
\* the popup's progress listener receives the change notification.
ProgressWritten ==
    /\ progress.writes["popup"] # <<>>
    /\ progress' = Committed(progress, "popup", "progress")
    /\ UNCHANGED <<embeddingIndexDB, heartbeat, status, popup, stop, output,
                   ports, runs>>
    /\ UNCHANGED <<notRuns, error, prompt, timers>>

\* The persistence layer commits the popup's oldest write of the output; the
\* popup's output listener receives the change notification.
OutputWritten ==
    /\ output.writes["popup"] # <<>>
    /\ output' = Committed(output, "popup", "string")
    /\ UNCHANGED <<embeddingIndexDB, heartbeat, status, popup, stop, ports, runs>>
    /\ UNCHANGED <<notRuns, textVars>>

\* background: chrome.runtime.onInstalled: downloadModels() up to the
\* download.  currentStatus = await status.getStorage(); await
\* status.init(); status.subscribe(...); await embeddingIndexDB.clear();
\* await status.set({...currentStatus, isDownloading: true}); the watchdog
\* is started.  From the subscription on, currentStatus is the background's
\* value of Status.
downloadModels ==
    /\ bg.alive
    /\ bg.download = "idle"
    /\ bg' = [bg EXCEPT !.download = "running"]
    /\ embeddingIndexDB' = [k \in Sites |-> NoItem]
    /\ LET initialised == StoreInitOf(status, "bg", StatusDef, "status")
       IN status' = SetAwaited(initialised, "bg", "status",
                        [initialised.mem["bg"] EXCEPT !.isDownloading = TRUE])
    /\ timers' = [timers EXCEPT !.download = TRUE]
    /\ UNCHANGED <<clockVars, lastOp, storeVars, heartbeat, popup, lag, lastCheck>>
    /\ UNCHANGED <<stop, output, ports, runs, error, prompt, progress, search, stream, inflight>>

\* background: every initModel of downloadModels has resolved: await
\* status.set({...currentStatus, isDownloading: false, hasTimeout: false}).
downloadDone ==
    /\ bg.download = "running"
    /\ bg' = [bg EXCEPT !.download = "done"]
    /\ status' = SetAwaited(status, "bg", "status",
                     [status.mem["bg"] EXCEPT !.isDownloading = FALSE,
                                              !.hasTimeout = FALSE])
    /\ UNCHANGED <<clockVars, cacheVars, storeVars, heartbeat, popup, lag, lastCheck>>
    /\ UNCHANGED <<runVars, search, stream, inflight>>

\* background: an initModel of downloadModels rejects: downloadModels
\* rejects and the rejection is logged.
downloadFails ==
    /\ bg.download = "running"
    /\ bg' = [bg EXCEPT !.download = "failed"]
    /\ UNCHANGED <<clockVars, cacheVars, storeVars, heartbeat, status, popup, lag,
                   lastCheck>>
    /\ UNCHANGED <<runVars, search, stream, inflight>>

\* background: the download watchdog fires, 150 s after the download
\* started: if (currentStatus.isDownloading) status.set({...currentStatus,
\* hasTimeout: true}); nothing waits for the write.
downloadWatchdog ==
    /\ bg.alive
    /\ timers.download
    /\ timers' = [timers EXCEPT !.download = FALSE]
    /\ status' = IF status.mem["bg"].isDownloading
                   THEN SetAwaited(status, "bg", "status",
                            [status.mem["bg"] EXCEPT !.hasTimeout = TRUE])
                   ELSE status
    /\ UNCHANGED <<clockVars, cacheVars, storeVars, heartbeat, bg, popup, lag,
                   lastCheck>>
    /\ UNCHANGED <<stop, output, ports, runs, error, prompt, progress, search, stream, inflight>>

\* The run that the next request received starts.
NextRun == CHOOSE r \in RunIds : runs[r].kind = "none" /\ \A q \in 1..(r - 1) : runs[q].kind # "none"

\* The storage calls a context made before it posted a message have been
\* served when the message is handled.
Delivered ==
    /\ status.writes["popup"] = <<>>
    /\ output.writes["popup"] = <<>>
    /\ progress.writes["popup"] = <<>>

\* if (kb.length === 1 && kb[0] === "")
IsSentinel(kb) == Len(kb) = 1 /\ kb[1] = ""

\* The message of the TypeError validateCache throws when it destructures
\* the entry of an exhausted iterator.
IteratorError == [isError |-> TRUE, message |-> "undefined is not iterable"]

\* handlerEmbeddings is invoked with a request.  For the sentinel the
\* handler goes on to await status.getStorage().
embeddingReceived ==
    /\ ports.embedding > 0
    /\ Delivered
    /\ ports' = [ports EXCEPT !.embedding = @ - 1]
    /\ LET kb == popup.context
       IN runs' = [runs EXCEPT ![NextRun] =
                      IF IsSentinel(kb)
                        THEN [NoRun EXCEPT
                                 !.kind = "embedding", !.pc = "sentinel",
                                 !.read = getStorageOf(status, StatusDef, "status")]
                        ELSE [NoRun EXCEPT !.kind = "embedding", !.pc = "embed"]]
    /\ UNCHANGED <<embeddingIndexDB, heartbeat, status, popup, stop, output>>
    /\ UNCHANGED <<notRuns, textVars>>

\* handlerEmbeddings, sentinel: status.set({...read, isEmbedding: false});
\* return.
embeddingSentinel(r) ==
    /\ runs[r].kind = "embedding"
    /\ runs[r].pc = "sentinel"
    /\ status' = SetAwaited(status, "bg", "status",
                     [runs[r].read EXCEPT !.isEmbedding = FALSE])
    /\ runs' = [runs EXCEPT ![r] = [Returned(runs[r]) EXCEPT !.outcome = "skipped"]]
    /\ UNCHANGED <<embeddingIndexDB, heartbeat, popup, stop, output, ports>>
    /\ UNCHANGED <<notRuns, textVars>>

\* processEmbeddings: one chunk is embedded: processedSoFar++; await
\* progress.set({total, processed: processedSoFar}).
chunkEmbedded(r) ==
    /\ runs[r].kind = "embedding"
    /\ runs[r].pc = "embed"
    /\ runs[r].processedSoFar < Len(popup.context)
    /\ progress' = SetAwaited(progress, "bg", "progress",
                       [total |-> Len(popup.context),
                        processed |-> runs[r].processedSoFar + 1])
    /\ runs' = [runs EXCEPT ![r].processedSoFar = @ + 1]
    /\ UNCHANGED <<embeddingIndexDB, heartbeat, status, popup, stop, output, ports>>
    /\ UNCHANGED <<notRuns, error, prompt, timers>>

\* handlerEmbeddings: the chunks are embedded, await validateCache(data),
\* await embeddingIndexDB.setItem(site, item), await error.set(""); when
\* validateCache throws, the catch block sets the error cell and schedules
\* the reload.  In the finally block, await status.getStorage().
embeddingsStored(r) ==
    /\ runs[r].kind = "embedding"
    /\ runs[r].pc = "embed"
    /\ runs[r].processedSoFar = Len(popup.context)
    /\ LET v == validateCache(embeddingIndexDB, now, RunDataSize)
       IN IF v.outcome = "returned"
            THEN /\ embeddingIndexDB' =
                       [v.db EXCEPT ![RunSite] = CacheItem(RunDataSize, now)]
                 /\ error' = SetAwaited(error, "bg", "string", "")
                 /\ UNCHANGED timers
            ELSE /\ embeddingIndexDB' = v.db
                 /\ error' = SetAwaited(error, "bg", "string",
                                 ErrorMessage(IteratorError,
                                              "Couldn't process embeddings."))
                 /\ timers' = [timers EXCEPT !.reload = TRUE]
    /\ runs' = [runs EXCEPT ![r].pc = "finally",
                            ![r].outcome =
                                IF validateCache(embeddingIndexDB, now,
                                                 RunDataSize).outcome = "returned"
                                  THEN "embedded" ELSE "failed",
                            ![r].read = getStorageOf(status, StatusDef, "status")]
    /\ search' = IF validateCache(embeddingIndexDB, now,
                                  RunDataSize).outcome = "returned"
                   THEN [search EXCEPT !.index = processEmbeddings(popup.context)]
                   ELSE search
    /\ UNCHANGED <<heartbeat, status, popup, stop, output, ports, prompt, progress>>
    /\ UNCHANGED <<clockVars, lastOp, storeVars, bg, lag, lastCheck, stream, inflight>>

\* handlerEmbeddings: a step inside the try block throws e.  The catch block
\* sets the error cell and schedules the reload; in the finally block,
\* await status.getStorage().
embeddingThrows(r) ==
    /\ runs[r].kind = "embedding"
    /\ runs[r].pc = "embed"
    /\ \E e \in Thrown :
          error' = SetAwaited(error, "bg", "string",
                       ErrorMessage(e, "Couldn't process embeddings."))
    /\ timers' = [timers EXCEPT !.reload = TRUE]
    /\ runs' = [runs EXCEPT ![r].pc = "finally",
                            ![r].outcome = "failed",
                            ![r].read = getStorageOf(status, StatusDef, "status")]
    /\ UNCHANGED <<embeddingIndexDB, heartbeat, status, popup, stop, output,
                   ports, prompt, progress>>
    /\ UNCHANGED notRuns

\* handlerEmbeddings, finally: status.set({...read, isEmbedding: false,
\* hasTimeout: false}).
embeddingsFinally(r) ==
    /\ runs[r].kind = "embedding"
    /\ runs[r].pc = "finally"
    /\ status' = SetAwaited(status, "bg", "status",
                     [runs[r].read EXCEPT !.isEmbedding = FALSE,
                                          !.hasTimeout = FALSE])
    /\ runs' = [runs EXCEPT ![r] = Returned(runs[r])]
    /\ UNCHANGED <<embeddingIndexDB, heartbeat, popup, stop, output, ports>>
    /\ UNCHANGED <<notRuns, textVars>>

\* handlerAnswer is invoked with a request: currStop = await
\* stop.getStorage(); await stop.init(); stop.subscribe(...).
answerReceived ==
    /\ ports.answer > 0
    /\ Delivered
    /\ ports' = [ports EXCEPT !.answer = @ - 1]
    /\ stop' = StoreInitOf(stop, "bg", FALSE, "bool")
    /\ runs' = MarkStopSeen([runs EXCEPT ![NextRun] =
                                [NoRun EXCEPT !.kind = "answer", !.pc = "prepare"]],
                            stop')
    /\ UNCHANGED <<embeddingIndexDB, heartbeat, status, popup, output>>
    /\ UNCHANGED <<notRuns, textVars>>

\* A handler that retrieves whenever the cache holds an entry for the site.
HasEmbeddings_AnyEntry == embeddingIndexDB[RunSite] # NoItem

\* embedIndex?.data?.length > 0, for embedIndex = await
\* embeddingIndexDB.getItem(site).
HasEmbeddings == embeddingIndexDB[RunSite] # NoItem /\ Len(search.index) > 0

\* handlerAnswer: the cache is read; with embeddings, the query is embedded,
\* nearests = similaritySearch(embedIndex.data, q.result, topK), the
\* highlight message is sent and the context is built; then await
\* prompt.set(currentPrompt), the answer model is loaded, await
\* status.getStorage().
answerPrepared(r) ==
    /\ runs[r].kind = "answer"
    /\ runs[r].pc = "prepare"
    /\ LET nearests == similaritySearch(search.index, search.query, search.k)
           context == IF HasEmbeddings THEN ContextOf(nearests) ELSE ""
       IN /\ search' = IF HasEmbeddings
                          THEN [search EXCEPT !.result = nearests,
                                              !.done = TRUE,
                                              !.highlight = nearests,
                                              !.highlighted = TRUE]
                          ELSE search
          /\ prompt' = SetAwaited(prompt, "bg", "string",
                                  ComposePrompt(popup.question, context))
    /\ runs' = [runs EXCEPT ![r].pc = "showStop",
                            ![r].read = getStorageOf(status, StatusDef, "status")]
    /\ UNCHANGED <<embeddingIndexDB, heartbeat, status, popup, stop, output, ports>>
    /\ UNCHANGED <<clockVars, lastOp, storeVars, bg, lag, lastCheck>>
    /\ UNCHANGED <<error, progress, timers, stream, inflight>>

\* handlerAnswer: status.set({...read, showStop: true}).
answerShowStop(r) ==
    /\ runs[r].kind = "answer"
    /\ runs[r].pc = "showStop"
    /\ status' = SetAwaited(status, "bg", "status",
                     [runs[r].read EXCEPT !.showStop = TRUE])
    /\ runs' = [runs EXCEPT ![r].pc = "stream", ![r].read = StatusDef]
    /\ UNCHANGED <<embeddingIndexDB, heartbeat, popup, stop, output, ports>>
    /\ UNCHANGED <<notRuns, textVars>>

\* A handler that leaves the stream loop and does not reset the stop flag.
EndStream_KeepingStop(r, how) ==
    /\ error' = SetAwaited(error, "bg", "string", "")
    /\ runs' = [runs EXCEPT ![r].pc = "finally",
                            ![r].outcome = how,
                            ![r].read = getStorageOf(status, StatusDef, "status")]
    /\ UNCHANGED <<stop, output, prompt, progress, timers>>

\* handlerAnswer leaves the stream loop: await stop.set(false), await
\* error.set(""); in the finally block, await status.getStorage().
EndStream(r, how) ==
    /\ stop' = SetAwaited(stop, "bg", "bool", FALSE)
    /\ error' = SetAwaited(error, "bg", "string", "")
    /\ runs' = [runs EXCEPT ![r].pc = "finally",
                            ![r].outcome = how,
                            ![r].read = getStorageOf(status, StatusDef, "status")]
    /\ UNCHANGED <<output, prompt, progress, timers>>

\* handlerAnswer: the stream yields a piece: if (currStop) break; else the
\* piece is appended, " ." is replaced and the output is published.
streamPiece(r) ==
    /\ runs[r].kind = "answer"
    /\ runs[r].pc = "stream"
    /\ runs[r].pieces < MaxPieces
    /\ runs[r].pieces < Len(stream)
    /\ IF currStop(stop)
         THEN EndStream(r, "cancelled")
         ELSE LET piece == stream[runs[r].pieces + 1]
                  out == ReplaceSpaceDot(runs[r].currentOutput \o piece)
              IN /\ output' = SetAwaited(output, "bg", "string", out)
                 /\ runs' = [runs EXCEPT ![r].currentOutput = out,
                                         ![r].pieces = @ + 1,
                                         ![r].late = runs[r].stopSeen]
                 /\ UNCHANGED <<stop, error, prompt, progress, timers>>
    /\ UNCHANGED <<embeddingIndexDB, heartbeat, status, popup, ports>>
    /\ UNCHANGED notRuns

\* handlerAnswer: the stream is exhausted.
streamExhausted(r) ==
    /\ runs[r].kind = "answer"
    /\ runs[r].pc = "stream"
    /\ EndStream(r, "completed")
    /\ UNCHANGED <<embeddingIndexDB, heartbeat, status, popup, ports>>
    /\ UNCHANGED notRuns

\* A finally block that leaves showStop as it read it.
answerFinally_KeepingShowStop(r) ==
    /\ runs[r].kind = "answer"
    /\ runs[r].pc = "finally"
    /\ status' = SetAwaited(status, "bg", "status",
                     [runs[r].read EXCEPT !.isAnswering = FALSE,
                                          !.hasTimeout = FALSE])
    /\ runs' = [runs EXCEPT ![r] =
                   Returned([runs[r] EXCEPT
                       !.final = getStorageOf(status', StatusDef, "status")])]
    /\ UNCHANGED <<embeddingIndexDB, heartbeat, popup, stop, output, ports>>
    /\ UNCHANGED <<notRuns, textVars>>

\* handlerAnswer, finally: status.set({...read, isAnswering: false,
\* showStop: false, hasTimeout: false}).
answerFinally(r) ==
    /\ runs[r].kind = "answer"
    /\ runs[r].pc = "finally"
    /\ status' = SetAwaited(status, "bg", "status",
                     [runs[r].read EXCEPT !.isAnswering = FALSE,
                                          !.showStop = FALSE,
                                          !.hasTimeout = FALSE])
    /\ runs' = [runs EXCEPT ![r] =
                   Returned([runs[r] EXCEPT
                       !.final = getStorageOf(status', StatusDef, "status")])]
    /\ UNCHANGED <<embeddingIndexDB, heartbeat, popup, stop, output, ports>>
    /\ UNCHANGED <<notRuns, textVars>>

\* handlerAnswer: a step inside the try block throws (the cache read, a
\* model, the retrieval, the generation stream): the catch block sets the
\* error cell and schedules chrome.runtime.reload() in 300 ms; in the finally
\* block, await status.getStorage().
answerThrows(r) ==
    /\ runs[r].kind = "answer"
    /\ runs[r].pc \in {"prepare", "stream"}
    /\ \E e \in Thrown :
          error' = SetAwaited(error, "bg", "string",
                              ErrorMessage(e, "Couldn't find an answer."))
    /\ timers' = [timers EXCEPT !.reload = TRUE]
    /\ runs' = [runs EXCEPT ![r].pc = "finally",
                            ![r].outcome = "failed",
                            ![r].read = getStorageOf(status, StatusDef, "status")]
    /\ UNCHANGED <<embeddingIndexDB, heartbeat, status, popup, stop, output,
                   ports, prompt, progress>>
    /\ UNCHANGED notRuns

\* The reload timer fires: chrome.runtime.reload() restarts the extension.
\* The popup is closed, the service worker starts afresh, the requests not
\* yet handled and the handlers still running are gone; the handler that
\* scheduled the reload has returned by then.
reloadFires ==
    /\ timers.reload
    /\ \A r \in RunIds : runs[r].outcome = "failed" => runs[r].pc = "ended"
    /\ timers' = [timers EXCEPT !.reload = FALSE, !.answer = FALSE,
                                !.embedding = FALSE, !.download = FALSE]
    /\ popup' = [popup EXCEPT !.open = FALSE, !.mounted = FALSE,
                              !.hasEmbedded = FALSE]
    /\ status' = ContextGone(ContextGone(status, "popup", StatusDef), "bg", StatusDef)
    /\ stop' = ContextGone(ContextGone(stop, "popup", FALSE), "bg", FALSE)
    /\ output' = ContextGone(ContextGone(output, "popup", ""), "bg", "")
    /\ error' = ContextGone(ContextGone(error, "popup", ""), "bg", "")
    /\ prompt' = ContextGone(ContextGone(prompt, "popup", ""), "bg", "")
    /\ progress' = ContextGone(ContextGone(progress, "popup", ProgressDef),
                               "bg", ProgressDef)
    /\ heartbeat' = ContextGone(heartbeat, "popup", StartTime)
    /\ ports' = [ports EXCEPT !.answer = 0, !.embedding = 0]
    /\ runs' = [r \in RunIds |->
                   IF runs[r].kind # "none" /\ runs[r].pc # "ended"
                     THEN Killed(runs[r]) ELSE runs[r]]
    /\ UNCHANGED embeddingIndexDB
    /\ UNCHANGED notRuns

RunsNext ==
    \/ popupOpen
    \/ popupMount
    \/ closePopup
    \/ handleEmbeddings
    \/ handleAnswer
    \/ stopClicked
    \/ StatusWritten
    \/ StopWritten
    \/ OutputWritten
    \/ ProgressWritten
    \/ embeddingReceived
    \/ answerReceived
    \/ \E r \in RunIds :
          \/ chunkEmbedded(r)
          \/ embeddingsStored(r)
          \/ embeddingsFinally(r)
          \/ answerPrepared(r)
          \/ answerShowStop(r)
          \/ streamPiece(r)
          \/ streamExhausted(r)
          \/ answerFinally(r)

SpecRuns == RunsInit /\ [][RunsNext]_vars

\* The answer handler on its own: a popup that stays open on a page whose
\* embeddings are not being computed.
AnswerNext ==
    \/ popupOpen
    \/ popupMount
    \/ handleAnswer
    \/ stopClicked
    \/ StatusWritten
    \/ StopWritten
    \/ OutputWritten
    \/ answerReceived
    \/ \E r \in RunIds :
          \/ answerPrepared(r)
          \/ answerShowStop(r)
          \/ streamPiece(r)
          \/ streamExhausted(r)
          \/ answerThrows(r)
          \/ answerFinally(r)
    \/ reloadFires

SpecAnswer == RunsInit /\ [][AnswerNext]_vars

\* The embedding handler with the handlers of the popup that write Status,
\* on a tab whose page store holds either knowledge base.
EmbeddingNext ==
    \/ popupOpen
    \/ popupMount
    \/ handleEmbeddings
    \/ handleAnswer
    \/ StatusWritten
    \/ OutputWritten
    \/ ProgressWritten
    \/ embeddingReceived
    \/ \E r \in RunIds :
          \/ embeddingSentinel(r)
          \/ chunkEmbedded(r)
          \/ embeddingsStored(r)
          \/ embeddingThrows(r)
          \/ embeddingsFinally(r)
    \/ embeddingWatchdog
    \/ reloadFires

SpecEmbedding == EmbeddingInit /\ [][EmbeddingNext]_vars

\* The download of the models and the popup's submissions, with the
\* watchdogs they start.
WatchdogNext ==
    \/ popupOpen
    \/ popupMount
    \/ handleAnswer
    \/ StatusWritten
    \/ OutputWritten
    \/ downloadModels
    \/ downloadDone
    \/ downloadFails
    \/ answerWatchdog
    \/ downloadWatchdog

SpecWatchdog == RunsInit /\ [][WatchdogNext]_vars

\* The answer handler with its scheduling: a message that was posted is
\* handled, a handler that can go on does, a write that was issued is
\* served, a finite stream ends and a timer that is pending fires.
SpecAnswerLive ==
    /\ RunsInit
    /\ [][AnswerNext]_vars
    /\ WF_vars(answerReceived)
    /\ WF_vars(StatusWritten)
    /\ WF_vars(StopWritten)
    /\ WF_vars(OutputWritten)
    /\ WF_vars(reloadFires)
    /\ \A r \in RunIds :
          /\ WF_vars(answerPrepared(r))
          /\ WF_vars(answerShowStop(r))
          /\ WF_vars(streamExhausted(r))
          /\ WF_vars(answerFinally(r))

(***************************************************************************)
(* The cache: the claims.                                                  *)
(***************************************************************************)

\* C1: after validateCache() with no candidate has returned, no entry of
\* the cache has now - timestamp > maxCacheAge.
C1_AgeEviction ==
    lastOp.kind = "sweep" =>
        \A k \in Keys(embeddingIndexDB) : ~IsExpired(embeddingIndexDB[k], now)

\* C2: after validateCache(candidate) has returned, the serialized size of
\* the retained entries together with the pending candidate is at most
\* maxCacheSize.
C2_SizeBound ==
    (lastOp.kind = "embed" /\ lastOp.outcome = "returned") =>
        TotalSize(lastOp.validated) + lastOp.embedIndex <= maxCacheSize

\* C9: every call of validateCache returns normally.
C9_ReturnsNormally ==
    lastOp.kind \in {"sweep", "embed"} => lastOp.outcome = "returned"

\* C37: when the embedding handlers of two different sites run concurrently
\* and both have inserted their items, the total serialized size of the
\* cache is at most maxCacheSize.
C37_SizeBoundUnderInterleaving ==
    \A s, t \in Sites :
        (s # t /\ inflight[s].pc = "stored" /\ inflight[t].pc = "stored") =>
            TotalSize(embeddingIndexDB) <= maxCacheSize

\* C38: when the embedding run fails because validateCache threw, no item
\* is written for the request's site and no entry whose age is at most
\* maxCacheAge is removed from the cache.
C38_FailedRunLeavesCache ==
    (lastOp.kind = "embed" /\ lastOp.outcome = "threw") =>
        /\ embeddingIndexDB[lastOp.site] \in {lastOp.before[lastOp.site], NoItem}
        /\ \A k \in Keys(lastOp.before) :
               ~IsExpired(lastOp.before[k], now)
                   => embeddingIndexDB[k] = lastOp.before[k]

\* The entries of db that are not expired at time t, in iteration order.
Survivors(db, t) ==
    SelectSeq(IterationOrder(db), LAMBDA k : ~IsExpired(db[k], t))

RECURSIVE SeqSize(_, _)
SeqSize(db, keys) ==
    IF keys = <<>> THEN 0 ELSE db[Head(keys)].size + SeqSize(db, Tail(keys))

\* The length of the shortest prefix of the surviving entries whose eviction
\* brings projectedSize down to maxCacheSize; all of them when none does.
ShortestPrefix(db, surv, embedIndex) ==
    LET fits(j) == SeqSize(db, SubSeq(surv, j + 1, Len(surv))) + embedIndex
                       <= maxCacheSize
    IN IF \E j \in 0..Len(surv) : fits(j)
         THEN CHOOSE j \in 0..Len(surv) :
                  fits(j) /\ \A i \in 0..(j - 1) : ~fits(i)
         ELSE Len(surv)

\* C10: under size pressure validateCache(candidate) evicts the shortest
\* prefix, in iteration order, of the surviving entries that brings
\* projectedSize down to maxCacheSize.
C10_EvictsShortestPrefix ==
    lastOp.kind = "embed" =>
        LET surv == Survivors(lastOp.before, now)
            n == ShortestPrefix(lastOp.before, surv, lastOp.embedIndex)
        IN {k \in Keys(lastOp.before) :
                /\ ~IsExpired(lastOp.before[k], now)
                /\ lastOp.validated[k] = NoItem}
           = {surv[i] : i \in 1..n}

\* The entries of the cache that validateCache removed although their age
\* was at most maxCacheAge.
RemovedFresh ==
    {k \in Keys(lastOp.before) :
        /\ now - lastOp.before[k].timestamp <= maxCacheAge
        /\ lastOp.validated[k] = NoItem}

\* projectedSize: the sizes of the entries that are not expired, plus the
\* size of the candidate.
ProjectedSize ==
    SumSizes(lastOp.before,
             {k \in Keys(lastOp.before) :
                 now - lastOp.before[k].timestamp <= maxCacheAge})
    + lastOp.embedIndex

\* C11: validateCache removes an entry whose age is at most maxCacheAge only
\* when a candidate is supplied and projectedSize > maxCacheSize.
C11_FreshRemovedOnlyUnderPressure ==
    (lastOp.kind \in {"sweep", "embed"} /\ RemovedFresh # {}) =>
        /\ lastOp.embedIndex # NoCandidate
        /\ ProjectedSize > maxCacheSize

\* A call with a candidate removed one entry that was not expired and kept
\* another whose age was exactly maxCacheAge.
C11_Witness ==
    /\ lastOp.kind = "embed"
    /\ RemovedFresh # {}
    /\ \E k \in Keys(lastOp.validated) :
           now - lastOp.validated[k].timestamp = maxCacheAge

\* C12: validateCache never writes: every key it leaves was there before
\* with the same entry, so the candidate is not inserted.
C12_NeverWrites ==
    lastOp.kind \in {"sweep", "embed"} =>
        \A k \in Sites :
            lastOp.validated[k] = NoItem \/ lastOp.validated[k] = lastOp.before[k]

\* A call with a candidate for a site that was not cached removed one entry
\* and retained another.
C12_Witness ==
    /\ lastOp.kind = "embed"
    /\ lastOp.before[lastOp.site] = NoItem
    /\ lastOp.validated[lastOp.site] = NoItem
    /\ \E k \in Keys(lastOp.before) : lastOp.validated[k] = NoItem
    /\ Keys(lastOp.validated) # {}

(***************************************************************************)
(* The synchronized store: the claims.                                     *)
(***************************************************************************)

\* C4: once a set(v) has been persisted and no other write has been
\* persisted since, getStorage() returns v; once a reset() has been
\* persisted, getStorage() returns the default.
C4_GetStorageAfterSet ==
    storeGhost.lastSettled # NoWrite =>
        /\ getStorage(cell, CellDef) = storeGhost.lastSettled.value
        /\ storeGhost.lastSettled.reset => getStorage(cell, CellDef) = CellDef

\* A set of a value other than the default was the last write persisted, after
\* an earlier persisted write.
C4_Witness ==
    /\ storeGhost.lastSettled.id = 2
    /\ storeGhost.lastSettled.value = "b"
    /\ ~storeGhost.lastSettled.reset
    /\ Cardinality(storeGhost.writers) = 2

InSync(c) == cell.mem[c] = getStorage(cell, CellDef)

\* C5 (as claimed): once the writes have stopped, every context that called
\* init() comes to hold the last persisted value and keeps it.
C5_EventuallyConsistent ==
    <>[](\A c \in Contexts : cell.watchers[c] > 0 => InSync(c))

\* C5 (amended): the same, except in a context whose own last set or reset
\* was rejected by the persistence layer and that received no change
\* notification after it.
C5_ConsistentUnlessLostWrite ==
    <>[](\A c \in Contexts :
            cell.watchers[c] > 0 => InSync(c) \/ storeGhost.lost[c])

\* Both contexts listen, both have had a write persisted, nothing is in
\* flight, and each holds the persisted value, which is not the default.
C5_Witness ==
    /\ \A c \in Contexts :
          /\ cell.watchers[c] > 0
          /\ cell.writes[c] = <<>>
          /\ cell.events[c] = <<>>
          /\ InSync(c)
    /\ storeGhost.writers = Contexts
    /\ getStorage(cell, CellDef) # CellDef

\* The persistence layer rejects the oldest write of context c in this step.
Rejecting(c) ==
    /\ cell.writes[c] # <<>>
    /\ cell'.writes[c] = Tail(cell.writes[c])
    /\ storeGhost'.lastSettled = storeGhost.lastSettled

\* C18: a step that issues a set or reset leaves the value published in the
\* caller while the persisted value is still the old one; a step in which
\* the write is rejected changes neither the in-memory values nor the
\* persisted value.
C18_PublishesFirstNoRollback ==
    [][\A c \in Contexts :
          /\ Len(cell'.writes[c]) > Len(cell.writes[c]) =>
                 /\ cell'.mem[c] = cell'.writes[c][Len(cell'.writes[c])].value
                 /\ cell'.stored = cell.stored
          /\ Rejecting(c) =>
                 /\ cell'.mem = cell.mem
                 /\ cell'.stored = cell.stored]_vars

\* The last write of a context was rejected: its in-memory value is the one
\* it published and differs from the persisted one.
C18_Witness ==
    \E c \in Contexts :
        /\ storeGhost.lost[c]
        /\ cell.writes[c] = <<>>
        /\ cell.mem[c] # getStorage(cell, CellDef)

\* C19: once a context has called destroy(), it has no change listener
\* registered on the cell, and a change notification does not change its
\* in-memory value.
C19_DestroyUnregisters ==
    [][\A c \in Contexts :
          storeGhost'.destroyed[c] =>
              /\ cell'.watchers[c] = 0
              /\ (storeGhost.destroyed[c]
                     /\ Len(cell'.events[c]) < Len(cell.events[c]))
                    => cell'.mem[c] = cell.mem[c]]_vars

\* C39: in every context the in-memory value of a cell is its default or a
\* value some context passed to set; it is never undefined, also after a
\* destroy() in the same or another context removed the persisted key.
C39_MemoryNeverUndefined ==
    \A c \in Contexts : cell.mem[c] \in CellValues

\* C20: a getStorage() call, by a context that called init() or not, changes
\* nothing of the cell (persisted value, in-memory values, listeners), and it
\* returns the
\* persisted value, or the default when nothing is persisted.
C20_GetStorageIsPure ==
    [][storeGhost'.lastGet # storeGhost.lastGet =>
          /\ cell' = cell
          /\ storeGhost'.lastGet.value =
                 IF cell.stored = Absent THEN CellDef ELSE Parse(cell.stored)]_vars

\* getStorage() returned the default with nothing persisted, while a
\* context that never called init() holds a value that is not the default.
C20_Witness ==
    /\ storeGhost.lastGet.value = CellDef
    /\ cell.stored = Absent
    /\ \E c \in Contexts : cell.watchers[c] = 0 /\ cell.mem[c] # CellDef

\* No context other than c has a write in flight or has had one persisted.
OnlyWriter(c) ==
    \A d \in Contexts \ {c} :
        cell.writes[d] = <<>> /\ d \notin storeGhost.writers

\* C21: while context c is the only writer and its in-memory value is the
\* one of its latest set, no step other than a new set, reset or init
\* changes that in-memory value: it does not go back to an earlier value.
C21_SetsInCallOrder ==
    [][\A c \in Contexts :
          (/\ OnlyWriter(c)
           /\ storeGhost.ops > 0
           /\ storeGhost.memOwn[c] = storeGhost.ops
           /\ storeGhost'.ops = storeGhost.ops
           /\ cell'.watchers = cell.watchers)
              => cell'.mem[c] = cell.mem[c]]_vars

(***************************************************************************)
(* The heartbeat monitor: the claims.                                      *)
(***************************************************************************)

\* C6: a liveness check resets the popup's Status to its default, and
\* writes the default, if now - lastHeartbeat > 10 s; it leaves Status
\* unchanged and writes nothing if now - lastHeartbeat <= 10 s.
C6_CheckResetsIffStale ==
    lastCheck.kind = "check" =>
        IF lastCheck.diff > 10000
          THEN lastCheck.after = StatusDef /\ lastCheck.issued
          ELSE lastCheck.after = lastCheck.before /\ ~lastCheck.issued

\* A check found the heartbeat 12.5 s old and cleared a stuck isAnswering.
C6_Witness ==
    /\ lastCheck.kind = "check"
    /\ lastCheck.diff = 12500
    /\ lastCheck.before.isAnswering
    /\ lastCheck.after = StatusDef

C3_StopHaltsOutput == \A r \in RunIds : ~runs[r].late

\* C13: when an answer run has been cancelled, the output cell holds the
\* text the run accumulated from the pieces it appended before it observed
\* the stop flag.
C13_CancelKeepsOutput ==
    \A r \in RunIds :
        (runs[r].outcome = "cancelled" /\ runs[r].pc = "finally") =>
            output.stored = Stringify(runs[r].currentOutput)

\* The answer runs that have reached Cancelled, Completed or Failed and
\* whose handler has returned.
TerminalRuns ==
    {r \in RunIds :
        /\ runs[r].kind = "answer"
        /\ runs[r].pc = "ended"
        /\ runs[r].outcome \in {"cancelled", "completed", "failed"}}

\* C14: every answer request eventually reaches Cancelled, Completed or
\* Failed, and Status.isAnswering and Status.showStop are false when its
\* handler has returned.
C14_EveryRequestEnds ==
    \A n \in RunIds :
        (popup.posts >= n) ~>
            /\ Cardinality(TerminalRuns) >= n
            /\ \A r \in TerminalRuns :
                   ~runs[r].final.isAnswering /\ ~runs[r].final.showStop

\* C15: when a step of the answer handler has thrown, the error cell holds a
\* non-empty message and a reload is scheduled; when the handler has
\* returned, Status was written with isAnswering and hasTimeout false.
C15_ErrorsAreReported ==
    \A r \in RunIds :
        runs[r].outcome = "failed" =>
            /\ runs[r].pc = "finally" =>
                   Parse(error.stored) # "" /\ timers.reload
            /\ runs[r].pc = "ended" =>
                   ~runs[r].final.isAnswering /\ ~runs[r].final.hasTimeout

\* C16: the step that ends the stream loop of an answer run, cancelled or
\* exhausted, leaves the stop flag false and the error cell empty.
C16_CompletionResets ==
    [][\A r \in RunIds :
          (runs[r].pc = "stream" /\ runs'[r].pc = "finally"
              /\ runs'[r].outcome \in {"cancelled", "completed"}) =>
                /\ stop'.stored = JsonBool(FALSE)
                /\ stop'.mem["bg"] = FALSE
                /\ error'.stored = Stringify("")]_vars

\* A run was cancelled and its handler is in the finally block; an earlier
\* run had failed and left a message in the error cell.
C16_Witness ==
    \E r, q \in RunIds :
        /\ runs[r].outcome = "cancelled"
        /\ runs[r].pc = "finally"
        /\ runs[q].outcome = "failed"
        /\ stop.stored = JsonBool(FALSE)
        /\ error.stored = Stringify("")

\* The Status flags the sentinel branch of handlerEmbeddings does not name.
OtherFlags == {"isAnswering", "isDownloading", "showStop", "hasTimeout"}

\* C17: the step in which handlerEmbeddings answers a request whose kb is
\* [""] leaves Status.isEmbedding false, leaves the cache as it was and
\* leaves every other persisted Status flag as it was.
C17_SentinelOnlyClearsEmbedding ==
    [][\A r \in RunIds :
          (runs[r].pc = "sentinel" /\ runs'[r].pc = "ended") =>
              /\ ~getStorageOf(status', StatusDef, "status").isEmbedding
              /\ embeddingIndexDB' = embeddingIndexDB
              /\ \A f \in OtherFlags :
                     getStorageOf(status', StatusDef, "status")[f]
                         = getStorageOf(status, StatusDef, "status")[f]]_vars

\* C23: in the step in which an answer run sets Status.showStop, the prompt
\* cell holds a published prompt and the run has appended no piece to the
\* output; a run appends its first piece only after that step; and in the
\* step in which the run returns, the persisted Status and the background's
\* copy have showStop false.
C23_PromptShowStopPieces ==
    [][\A r \in RunIds :
          runs[r].kind = "answer" =>
              /\ (runs[r].pc = "showStop" /\ runs'[r].pc = "stream") =>
                     /\ prompt.stored # Absent
                     /\ prompt.writes["bg"] = <<>>
                     /\ prompt.mem["bg"] = Parse(prompt.stored)
                     /\ getStorageOf(status', StatusDef, "status").showStop
                     /\ runs[r].pieces = 0
                     /\ runs[r].currentOutput = ""
              /\ runs'[r].pieces > runs[r].pieces => runs[r].pc = "stream"
              /\ (runs[r].pc = "finally" /\ runs'[r].pc = "ended") =>
                     /\ ~getStorageOf(status', StatusDef, "status").showStop
                     /\ ~status'.mem["bg"].showStop]_vars

\* An answer run has published its prompt, streamed to the output and
\* returned.
C23_Witness ==
    \E r \in RunIds :
        /\ runs[r].kind = "answer"
        /\ runs[r].pc = "ended"
        /\ runs[r].outcome = "completed"
        /\ prompt.stored = Stringify(popup.question)
        /\ output.stored \notin {Absent, Stringify("")}
        /\ ~getStorageOf(status, StatusDef, "status").showStop

\* The answer handler up to the publication of the prompt, on a tab whose
\* site has no entry in the cache or an entry with any index, with any
\* query embedding, topK setting and question.
PromptInit ==
    /\ ClockIdle /\ StoreIdle /\ BackgroundStarted /\ RunsIdle
    /\ lastOp = NoOp
    /\ \E item \in {NoItem, CacheItem(RunDataSize, StartTime)} :
           embeddingIndexDB = [k \in Sites |-> IF k = RunSite THEN item ELSE NoItem]
    /\ \E q \in Questions :
           popup = [PopupClosed(ParsedPage) EXCEPT !.question = q]
    /\ \E index \in Indexes, query \in Vectors, k \in 0..MaxK :
           search = [index |-> index, query |-> query, k |-> k,
                     result |-> <<>>, done |-> FALSE,
                     highlight |-> <<>>, highlighted |-> FALSE]

PromptNext ==
    \/ popupOpen
    \/ popupMount
    \/ handleAnswer
    \/ StatusWritten
    \/ OutputWritten
    \/ answerReceived
    \/ \E r \in RunIds : answerPrepared(r)

SpecPrompt == PromptInit /\ [][PromptNext]_vars

\* An answer run goes from the cache read to the published prompt in this
\* step.
Preparing(r) ==
    runs[r].kind = "answer" /\ runs[r].pc = "prepare" /\ runs'[r].pc = "showStop"

\* C24: when the cache holds an entry for the site with at least one
\* embedding, the answer handler retrieves: the search runs over the entry
\* with the query embedding and topK, and its result is sent as highlight.
\* Otherwise nothing is retrieved or sent, and the prompt published is the
\* question.
C24_RetrievalOnlyWithEmbeddings ==
    [][\A r \in RunIds :
          Preparing(r) =>
              IF embeddingIndexDB[RunSite] # NoItem /\ Len(search.index) >= 1
                THEN /\ search'.done /\ search'.highlighted
                     /\ search'.result =
                            similaritySearch(search.index, search.query, search.k)
                     /\ search'.highlight = search'.result
                ELSE /\ search' = search
                     /\ ~search'.done /\ ~search'.highlighted
                     /\ prompt'.stored = Stringify(popup.question)]_vars

\* A run has retrieved results from the entry of its site and sent them as
\* highlight, and its prompt is published.
C24_Witness ==
    /\ embeddingIndexDB[RunSite] # NoItem
    /\ search.done /\ search.highlighted
    /\ Len(search.highlight) >= 2
    /\ prompt.stored # Absent
    /\ \E r \in RunIds : runs[r].pc = "showStop"

\* The position of the first occurrence of pat in s at or after i, or 0.
RECURSIVE IndexOfFrom(_, _, _)
IndexOfFrom(s, pat, i) ==
    IF i + Len(pat) - 1 > Len(s) THEN 0
    ELSE IF SubSeq(s, i, i + Len(pat) - 1) = pat THEN i
    ELSE IndexOfFrom(s, pat, i + 1)

IndexOf(s, pat) == IndexOfFrom(s, pat, 1)

\* The results a run built its context from in the step that ends.
Retrieved == IF search'.highlighted THEN search'.highlight ELSE <<>>

\* C25: the prompt an answer run publishes is the question itself when
\* nothing was retrieved; otherwise it holds one block per result, the
\* block of the result of rank j numbered j, the blocks in rank order, no
\* further block, and the question after the last block.
C25_PromptFromContext ==
    [][\A r \in RunIds :
          Preparing(r) =>
              LET p == Parse(prompt'.stored)
                  n == Len(Retrieved)
                  at == [j \in 1..n |->
                            IndexOf(p, ToString(j) \o ") " \o Retrieved[j].text)]
              IN  /\ prompt'.mem["bg"] = p
                  /\ IF n = 0
                       THEN p = popup.question
                       ELSE /\ \A j \in 1..n : at[j] > 0
                            /\ \A j \in 1..(n - 1) : at[j] < at[j + 1]
                            /\ IndexOf(p, ToString(n + 1) \o ") ") = 0
                            /\ IndexOf(p, "Question: " \o popup.question) > at[n]
                            /\ p # popup.question]_vars

\* A prompt with two context blocks is published.
C25_Witness ==
    /\ search.highlighted
    /\ Len(search.highlight) = 2
    /\ search.highlight[1].score > search.highlight[2].score
    /\ \E r \in RunIds : runs[r].pc = "showStop"
    /\ prompt.stored =
           Stringify("Context:\n\n1) " \o search.highlight[1].text
                     \o (IF EndsWithDot(search.highlight[1].text) THEN "" ELSE ".")
                     \o "\n\n2) " \o search.highlight[2].text
                     \o (IF EndsWithDot(search.highlight[2].text) THEN "" ELSE ".")
                     \o "\n\nQuestion: " \o popup.question \o "\nAnswer:")

\* The pages the content script can have parsed: up to MaxChunks chunks.
Pages == {[i \in 1..n |-> ChunkText(i)] : n \in 0..MaxChunks}

\* The embedding handler with the progress it reports, on a tab whose page
\* has been parsed into any number of chunks.
ProgressInit ==
    /\ ClockIdle /\ CacheIdle /\ StoreIdle /\ BackgroundStarted /\ RunsIdle
    /\ SearchIdle
    /\ \E kb \in Pages : popup = PopupClosed(kb)

ProgressNext ==
    \/ popupOpen
    \/ popupMount
    \/ handleEmbeddings
    \/ saveSettings
    \/ StatusWritten
    \/ ProgressWritten
    \/ embeddingReceived
    \/ \E r \in RunIds :
          \/ chunkEmbedded(r)
          \/ embeddingsStored(r)
          \/ embeddingsFinally(r)

SpecProgress == ProgressInit /\ [][ProgressNext]_vars

\* The persisted Progress.
StoredProgress(cl) == getStorageOf(cl, ProgressDef, "progress")

\* The embedding run is between its start and its return.
Embedding(rs, r) == rs[r].kind = "embedding" /\ rs[r].pc \in {"embed", "finally"}

\* C28: when an embedding run over N chunks starts, Progress is {processed:
\* 0, total: N}; while the run is in flight, processed does not decrease
\* and does not exceed total, and a chunk the run embeds raises it by one;
\* when the run has embedded its chunks and stores them, processed is N.
C28_ProgressWithinRun ==
    [][\A r \in RunIds :
          LET N == Len(popup.context)
              before == StoredProgress(progress)
              after == StoredProgress(progress')
          IN  /\ (runs[r].kind = "none" /\ runs'[r].kind = "embedding") =>
                     after = [processed |-> 0, total |-> N]
              /\ (Embedding(runs, r) /\ Embedding(runs', r)) =>
                     /\ after.processed >= before.processed
                     /\ after.processed <= after.total
                     /\ runs'[r].processedSoFar > runs[r].processedSoFar =>
                            after.processed = before.processed + 1
              /\ (runs[r].pc = "embed" /\ runs'[r].pc = "finally"
                      /\ runs'[r].outcome = "embedded") =>
                     before.processed = N]_vars

\* The embedding run r stores its item in this step.
Stores(r) ==
    /\ runs[r].kind = "embedding" /\ runs[r].pc = "embed"
    /\ runs'[r].pc = "finally" /\ runs'[r].outcome = "embedded"

\* C31: a successful embedding run over kb writes for the site an item whose
\* data has one Embedding per chunk of kb in kb order, with id the chunk's
\* index and text the chunk; it writes only after validateCache(candidate)
\* has returned; and the persisted isEmbedding becomes false only after the
\* write.
C31_ItemPerChunkThenFinally ==
    [][\A r \in RunIds :
          /\ Stores(r) =>
                /\ validateCache(embeddingIndexDB, now, RunDataSize).outcome
                       = "returned"
                /\ embeddingIndexDB'[RunSite] = CacheItem(RunDataSize, now)
                /\ Len(search'.index) = Len(popup.context)
                /\ \A i \in 1..Len(popup.context) :
                       /\ search'.index[i].id = ToString(i - 1)
                       /\ search'.index[i].text = popup.context[i]
          /\ (runs[r].kind = "embedding" /\ runs[r].pc = "embed"
                 /\ getStorageOf(status, StatusDef, "status").isEmbedding) =>
                getStorageOf(status', StatusDef, "status").isEmbedding]_vars

\* The answer handler's read of the cache while time passes: a tab whose
\* site has an entry that was written at the start, with either question.
RetrievalInit ==
    /\ ClockIdle /\ StoreIdle /\ BackgroundStarted /\ RunsIdle /\ SearchIdle
    /\ lastOp = NoOp
    /\ embeddingIndexDB =
           [k \in Sites |-> IF k = RunSite THEN CacheItem(RunDataSize, StartTime)
                            ELSE NoItem]
    /\ \E q \in Questions :
           popup = [PopupClosed(ParsedPage) EXCEPT !.question = q]

RetrievalNext ==
    \/ ClockTick
    \/ popupOpen
    \/ popupMount
    \/ handleAnswer
    \/ StatusWritten
    \/ OutputWritten
    \/ answerReceived
    \/ \E r \in RunIds : answerPrepared(r)

SpecRetrieval == RetrievalInit /\ [][RetrievalNext]_vars

\* C32: whenever the answer handler reads the entry of the request's site,
\* the entry satisfies now - timestamp <= maxCacheAge.
C32_RetrievesOnlyFresh ==
    [][\A r \in RunIds :
          (Preparing(r) /\ runs'[r].pc = "showStop"
              /\ embeddingIndexDB[RunSite] # NoItem) =>
              now - embeddingIndexDB[RunSite].timestamp <= maxCacheAge]_vars

\* C29: handleAnswer posts a request on the answer port only while the
\* popup's Status has neither isEmbedding nor isDownloading set, and an
\* answer run reads the cache only while no embedding run is in flight.
C29_AnswerOnlyWhenIdle ==
    [][/\ ports'.answer > ports.answer =>
              /\ ~status.mem["popup"].isEmbedding
              /\ ~status.mem["popup"].isDownloading
       /\ \A r \in RunIds :
              Preparing(r) => InFlight(runs, "embedding") = {}]_vars

\* C30: while the popup's Status has isAnswering set, no step posts a
\* message on the answer port or issues a write of the popup to the output
\* cell, and the answer watchdog is not started; it stops being pending
\* only by firing (which sets hasTimeout) or with the popup's window.
C30_SuppressedSubmitDoesNothing ==
    [][(popup.mounted /\ status.mem["popup"].isAnswering) =>
          /\ ports'.answer <= ports.answer
          /\ Len(output'.writes["popup"]) <= Len(output.writes["popup"])
          /\ timers'.answer =>  timers.answer
          /\ (timers.answer /\ ~timers'.answer) =>
                 \/ ~popup'.open
                 \/ status'.mem["popup"].hasTimeout /\ status' # status]_vars

\* The state a call of handleAnswer returns at its guard in and leaves as
\* it is: a request in progress with its watchdog pending, the output
\* showing text and the port empty.
C30_Witness ==
    /\ ENABLED handleAnswer
    /\ popup.mounted
    /\ status.mem["popup"].isAnswering
    /\ timers.answer
    /\ output.mem["popup"] # ""
    /\ ports.answer = 0

\* The answer handler up to the end of its stream loop, with an answer
\* model that yields any pieces.
StreamInit ==
    /\ ClockIdle /\ CacheIdle /\ StoreIdle /\ HeartbeatIdle /\ HandlersIdle
    /\ SearchIdle
    /\ \E n \in 1..MaxPieces : stream \in [1..n -> Pieces]

StreamNext ==
    \/ popupOpen
    \/ popupMount
    \/ handleAnswer
    \/ StatusWritten
    \/ OutputWritten
    \/ answerReceived
    \/ \E r \in RunIds :
          \/ answerPrepared(r)
          \/ answerShowStop(r)
          \/ streamPiece(r)

SpecStream == StreamInit /\ [][StreamNext]_vars

\* C34: the output persisted in the output cell never has a space
\* immediately followed by a period.
C34_NoSpaceBeforePeriod ==
    output.stored # Absent => IndexOfSpaceDot(Parse(output.stored), 1) = 0

\* The answer runs the background has started since the popup was opened
\* for the first time, while that popup is open: each has called
\* stop.init() once.
StopInits == Cardinality({r \in RunIds : runs[r].kind = "answer"})

\* C33: every answer request the background receives registers one more
\* listener of the stop flag; until the extension is reloaded the
\* background has as many listeners as it has called stop.init(); and a
\* change of the flag committed for the popup calls that many listeners in
\* the background.
C33_InitAddsListener ==
    [][/\ \A r \in RunIds :
              (runs[r].kind = "none" /\ runs'[r].kind = "answer") =>
                  stop'.watchers["bg"] = stop.watchers["bg"] + 1
       /\ (popup'.open /\ popup'.opens = 1) =>
              stop'.watchers["bg"] = StopInits'
       /\ (Len(stop'.writes["popup"]) < Len(stop.writes["popup"])
              /\ stop'.stored # stop.stored /\ popup.open /\ popup.opens = 1) =>
              stop'.invoked = StopInits]_vars

\* Two answer requests have been received and the stop the popup issued
\* then has called two listeners of the background.
C33_Witness ==
    /\ stop.watchers["bg"] = 2
    /\ stop.invoked = 2
    /\ stop.stored = JsonBool(TRUE)

\* A watchdog of the popup fires in this step.
AnswerWatchdogFiring == timers.answer /\ ~timers'.answer /\ popup'.open

EmbeddingWatchdogFiring == timers.embedding /\ ~timers'.embedding /\ popup'.open

DownloadWatchdogFiring == timers.download /\ ~timers'.download /\ bg'.alive

\* The request of the kind has been handled to its end: no message is
\* queued and no handler is running.
Finished(kind) == ports[kind] = 0 /\ InFlight(runs, kind) = {}

\* C22: a watchdog that fires changes Status only when the flag of its
\* operation is set in its context, and then it sets hasTimeout there; it
\* changes neither the runs, the ports, the stop flag nor the output; and
\* when the operation has finished before the watchdog fires, Status stays
\* as it is.
C22_WatchdogOnlyFlags ==
    [][/\ AnswerWatchdogFiring =>
             /\ status' # status =>
                    status.mem["popup"].isAnswering /\ status'.mem["popup"].hasTimeout
             /\ Finished("answer") => status' = status
       /\ EmbeddingWatchdogFiring =>
             /\ status' # status =>
                    status.mem["popup"].isEmbedding /\ status'.mem["popup"].hasTimeout
             /\ Finished("embedding") => status' = status
       /\ DownloadWatchdogFiring =>
             /\ status' # status =>
                    status.mem["bg"].isDownloading /\ status'.mem["bg"].hasTimeout
             /\ bg.download = "done" => status' = status
       /\ (AnswerWatchdogFiring \/ EmbeddingWatchdogFiring \/ DownloadWatchdogFiring)
             => UNCHANGED <<runs, ports, stop, output, embeddingIndexDB>>]_vars

\* The arguments of one call: an index, a query vector and the topK setting.
SearchInit ==
    /\ ClockIdle /\ CacheIdle /\ StoreIdle /\ HeartbeatIdle /\ RunsIdle
    /\ \E index \in Indexes, query \in Vectors, k \in 0..MaxK :
           search = [index |-> index, query |-> query, k |-> k,
                     result |-> <<>>, done |-> FALSE,
                     highlight |-> <<>>, highlighted |-> FALSE]

\* The call of similaritySearch.
similaritySearchCalled ==
    /\ ~search.done
    /\ search' = [search EXCEPT
                    !.result = similaritySearch(search.index, search.query, search.k),
                    !.done = TRUE]
    /\ UNCHANGED notSearch

SearchNext == similaritySearchCalled

SpecSearch == SearchInit /\ [][SearchNext]_vars

\* The position in the index of the entry a result was built from.
PositionOf(res) == CHOOSE i \in 1..Len(search.index) : search.index[i].id = res.id

ReturnedPositions == {PositionOf(search.result[j]) : j \in 1..Len(search.result)}

ScoreAt(i) == cosine(search.query, search.index[i].embeddings)

\* C26: similaritySearch returns min(k, |index|) results; each carries the
\* id and the text of an index entry of its own and that entry's similarity
\* to the query as score; scores do not increase along the result; and no
\* entry left out scores strictly higher than one returned.
C26_TopKByScore ==
    search.done =>
        LET res == search.result
            n == Len(search.index)
        IN  /\ Len(res) = (IF search.k < n THEN search.k ELSE n)
            /\ \A j \in 1..Len(res) :
                   \E i \in 1..n :
                       /\ res[j].id = search.index[i].id
                       /\ res[j].text = search.index[i].text
                       /\ res[j].score = ScoreAt(i)
            /\ \A j1, j2 \in 1..Len(res) : j1 # j2 => res[j1].id # res[j2].id
            /\ \A j \in 1..(Len(res) - 1) : res[j].score >= res[j + 1].score
            /\ \A i \in (1..n) \ ReturnedPositions :
                   \A j \in 1..Len(res) : ScoreAt(i) <= res[j].score

\* A search that cut an index of differing scores.
C26_Witness ==
    /\ search.done
    /\ Len(search.result) = 2
    /\ Len(search.index) = 3
    /\ search.result[1].score > search.result[2].score
    /\ \E i \in 1..3 : i \notin ReturnedPositions /\ ScoreAt(i) < search.result[2].score

\* C27: entries of equal similarity appear in the result in the order of
\* their positions in the index, and of two entries of equal similarity of
\* which only one is returned, the returned one has the lower position.
C27_StableTieBreak ==
    search.done =>
        LET res == search.result
            n == Len(search.index)
        IN  /\ \A j1, j2 \in 1..Len(res) :
                   (j1 < j2 /\ res[j1].score = res[j2].score)
                       => PositionOf(res[j1]) < PositionOf(res[j2])
            /\ \A i1 \in ReturnedPositions, i2 \in (1..n) \ ReturnedPositions :
                   ScoreAt(i1) = ScoreAt(i2) => i1 < i2

\* A search whose cut falls between two entries of equal similarity, with
\* two entries of equal similarity returned.
C27_Witness ==
    /\ search.done
    /\ Len(search.result) = 2
    /\ search.result[1].score = search.result[2].score
    /\ \E i \in (1..Len(search.index)) \ ReturnedPositions :
           ScoreAt(i) = search.result[2].score

\* A run of the kind has returned.
HasEnded(kind) == \E r \in RunIds : runs[r].kind = kind /\ runs[r].pc = "ended"

\* C35: when an answer run and an embedding run have returned, no handler
\* is running, no request is waiting and no write of the popup is pending,
\* the persisted Status has neither isAnswering nor isEmbedding set.
C35_NoLostStatusUpdate ==
    (/\ HasEnded("answer") /\ HasEnded("embedding")
     /\ Finished("answer") /\ Finished("embedding")
     /\ status.writes["popup"] = <<>>)
        => /\ ~getStorageOf(status, StatusDef, "status").isAnswering
           /\ ~getStorageOf(status, StatusDef, "status").isEmbedding

\* C40: in every state of the persisted Status record, showStop = true
\* implies isAnswering = true, also after a reset of Status during a run.
C40_ShowStopOnlyWhileAnswering ==
    getStorageOf(status, StatusDef, "status").showStop
        => getStorageOf(status, StatusDef, "status").isAnswering

\* C36: in the step in which an answer run enters its stream loop, the stop
\* flag is false, in the background's copy and in the persisted cell.
C36_StopFalseAtStreamStart ==
    [][\A r \in RunIds :
          (runs[r].kind = "answer" /\ runs[r].pc = "showStop"
              /\ runs'[r].pc = "stream") =>
              /\ ~currStop(stop')
              /\ stop'.stored # JsonBool(TRUE)]_vars

\* C8: at any time at most one answer run and at most one embedding run is
\* in flight in the background.
C8_AtMostOneRun ==
    /\ Cardinality(InFlight(runs, "answer")) <= 1
    /\ Cardinality(InFlight(runs, "embedding")) <= 1

=============================================================================
